---- MODULE Spec2Model ----
(***************************************************************************)
(* Aggregation and comparison engine of the birth-data cleaning dashboard. *)
(*                                                                         *)
(* The PostgreSQL tables the program keeps are the state.  A table is     *)
(* NoTable while it does not exist and otherwise Table(the set of its      *)
(* rows): an SQL table has no row order of its own, readers impose one     *)
(* with ORDER BY.  Text values are sequences of character codes, so that       *)
(* LOWER, TRIM, str.strip and the ordering of names are computed, not      *)
(* assumed.  Names are compared code point by code point (the "C"          *)
(* collation).  Indexes change no data and are left out.                   *)
(***************************************************************************)
EXTENDS Integers, Sequences, FiniteSets, TLC

VARIABLES
    original,                 \* [period -> clients_2025_<period>_original]
    analytics,                \* [period -> clients_2025_<period>_analytics]
    duplicates,               \* [period -> [pair -> ..._duplicates_<pair>]]
    charts,                   \* [period -> [chart -> ..._chart_<chart>]]
    common_names,             \* [period -> ..._<period>_common_names]
    comparison_common_names,  \* clients_2025_comparison_common_names
    comparison_unique_jan,    \* clients_2025_comparison_unique_jan
    comparison_unique_apr,    \* clients_2025_comparison_unique_apr
    comparison_summary,       \* clients_2025_comparison_summary
    an_pc,                    \* [period -> statements its create_analytics
                              \*            request in progress has run]
    cmp_pc,                   \* statements the create_comparison request in
                              \* progress has run
    cmp_response,             \* the answer to the last create_comparison
    run_pc,                   \* [run -> statements that create_analytics
                              \*         request for January has run]
    run_response,             \* [run -> its answer]
    clean_in,                 \* the batch handed to clean_dataset
    clean_out,                \* what clean_dataset gave back for it
    fetch_pc,                 \* get_sheet_data: "idle", "call", "sleep", "done"
    attempt,                  \* get_sheet_data: the loop variable
    fetch_log,                \* the outcomes of the fetch attempts so far
    fetch_result,             \* what get_sheet_data returned or raised
    raw_data,                 \* process_and_clean_sheet_data: the data rows
                              \* of the fetched sheet (raw_data[1:])
    batch_size,               \* its batch_size argument
    batch_num,                \* its loop variable
    total_included,           \* its running totals
    total_excluded,
    ingest_pc,                \* "idle", "clear", "batch", "done"
    ingest_result,            \* what it returned or raised
    ingest_log,               \* the row indices of the batches appended
    uncommitted               \* TRUNCATE executed on the SupabaseManager
                              \* connection and not yet committed

\* The positions of the requests being served statement by statement
requests == <<an_pc, cmp_pc, cmp_response, run_pc, run_response>>

\* Two create_analytics requests for the same period
runs == <<run_pc, run_response>>

\* The stored tables
stored == <<original, analytics, duplicates, charts, common_names,
            comparison_common_names, comparison_unique_jan,
            comparison_unique_apr, comparison_summary>>

\* A call of clean_dataset, of get_sheet_data and of
\* process_and_clean_sheet_data
cleaning == <<clean_in, clean_out>>
fetching == <<fetch_pc, attempt, fetch_log, fetch_result>>
ingestion == <<raw_data, batch_size, batch_num, total_included,
               total_excluded, ingest_pc, ingest_result, ingest_log,
               uncommitted>>

\* The state of data acquisition, which no request on the derived tables
\* touches
acquisition == <<cleaning, fetching, ingestion>>

vars == <<stored, requests, acquisition>>

\* Bounds of the explored inputs (data rows per sheet).
MaxRowsNames == 5
MaxRowsDates == 3
MaxRowsCmp == 4
MaxRowsThree == 3
\* Bound of the explored batches handed to clean_dataset (rows per batch).
MaxCleanBatch == 2
\* Bounds of the explored ingestion runs (data rows per sheet, batch_size).
MaxRowsIngest == 3
MaxBatchSize == 4

Periods == {"jan", "apr"}
\* A table that does not exist, and an existing table with its rows.
NoTable == [exists |-> FALSE, rows |-> {}]
Table(rows) == [exists |-> TRUE, rows |-> rows]
\* A nullable value computed by a query: NULL, or Some(v).  The text columns
\* of an original table are never NULL: append_data's COPY reads the quoted
\* empty field that csv.writer(QUOTE_ALL) writes for '' and None as '', so
\* the queries' IS NOT NULL tests on them always pass and are left out.
NULL == <<>>
Some(v) == <<v>>

(***************************************************************************)
(* Text                                                                    *)
(***************************************************************************)
sEmpty == <<>>
sANN == <<65, 78, 78>>
sANn == <<65, 78, 110>>
sann == <<97, 110, 110>>
sBOB == <<66, 79, 66>>
sAN == <<65, 78>>
sCAL == <<67, 65, 76>>
sALICE == <<65, 76, 73, 67, 69>>
salice == <<97, 108, 105, 99, 101>>
sPadded == <<32, 97, 110, 110, 32>>
sDay1 == <<49>>
sDay2 == <<50>>
sDay3 == <<51>>
sDay4 == <<52>>
sDay45 == <<52, 53>>
sMonth1 == <<49>>
sMonth2 == <<50>>
sYear1990 == <<49, 57, 57, 48>>
sYear1991 == <<49, 57, 57, 49>>
sYear1992 == <<49, 57, 57, 50>>
sA1N == <<65, 49, 78>>
sDayHalf == <<49, 46, 53>>
sMonth13 == <<49, 51>>
sYear1939 == <<49, 57, 51, 57>>
sInf == <<105, 110, 102>>
sInfinity == <<105, 110, 102, 105, 110, 105, 116, 121>>

\* Characters str.strip() removes and the regex class \s matches (ASCII).
Whitespace == {9, 10, 11, 12, 13, 32}

RECURSIVE LStrip(_, _)
LStrip(s, ws) ==
    IF s # <<>> /\ Head(s) \in ws THEN LStrip(Tail(s), ws) ELSE s

RECURSIVE RStrip(_, _)
RStrip(s, ws) ==
    IF s # <<>> /\ s[Len(s)] \in ws
    THEN RStrip(SubSeq(s, 1, Len(s) - 1), ws)
    ELSE s

\* Python str.strip()
Strip(s) == RStrip(LStrip(s, Whitespace), Whitespace)

\* PostgreSQL TRIM(text): removes spaces only, from both ends
TRIM(s) == RStrip(LStrip(s, {32}), {32})

\* PostgreSQL LOWER(text) on ASCII text
LOWER(s) == [i \in 1..Len(s) |-> IF s[i] \in 65..90 THEN s[i] + 32 ELSE s[i]]

Normalized(s) == LOWER(TRIM(s))

\* text < text, code point by code point
RECURSIVE StrLess(_, _)
StrLess(a, b) ==
    IF a = <<>> THEN b # <<>>
    ELSE IF b = <<>> THEN FALSE
    ELSE IF Head(a) # Head(b) THEN Head(a) < Head(b)
    ELSE StrLess(Tail(a), Tail(b))

StrLeq(a, b) == a = b \/ StrLess(a, b)

IsDigits(s) == s # <<>> /\ \A i \in 1..Len(s) : s[i] \in 48..57

RECURSIVE ParseDecimal(_)
ParseDecimal(s) ==
    IF s = <<>> THEN 0
    ELSE 10 * ParseDecimal(SubSeq(s, 1, Len(s) - 1)) + (s[Len(s)] - 48)

RECURSIVE SumOver(_, _)
\* SUM of f[x] over the finite set S
SumOver(S, f) ==
    IF S = {} THEN 0
    ELSE LET x == CHOOSE y \in S : TRUE
         IN  f[x] + SumOver(S \ {x}, f)

(***************************************************************************)
(* Validation (DataCleaner)                                                *)
(***************************************************************************)
is_valid_name(name) ==
    IF name = <<>> \/ Strip(name) = <<>>
    THEN [ok |-> FALSE, error |-> <<"missing name">>]
    ELSE IF Len(Strip(name)) < 3
    THEN [ok |-> FALSE, error |-> <<"name too short">>]
    ELSE IF ~(\A i \in 1..Len(Strip(name)) :
                 \/ Strip(name)[i] \in 65..90
                 \/ Strip(name)[i] \in 97..122
                 \/ Strip(name)[i] \in Whitespace)
    THEN [ok |-> FALSE, error |-> <<"special character in name">>]
    ELSE [ok |-> TRUE, error |-> <<>>]

\* A numeric text without its sign
Unsigned(s) == IF s # <<>> /\ Head(s) \in {43, 45} THEN Tail(s) ELSE s

\* The digits before the decimal point of an unsigned numeric text
IntegerDigits(u) ==
    IF \E i \in 1..Len(u) : u[i] = 46
    THEN SubSeq(u, 1, (CHOOSE i \in 1..Len(u) : u[i] = 46) - 1)
    ELSE u

\* The digits after the decimal point
FractionDigits(u) ==
    IF \E i \in 1..Len(u) : u[i] = 46
    THEN SubSeq(u, (CHOOSE i \in 1..Len(u) : u[i] = 46) + 1, Len(u))
    ELSE <<>>

\* float(s) succeeds with a finite value: an optional sign, digits and an
\* optional fraction (exponents and digit separators are not explored).
IsDecimal(s) ==
    LET u == Unsigned(s)
    IN  /\ Cardinality({i \in 1..Len(u) : u[i] = 46}) <= 1
        /\ IntegerDigits(u) \o FractionDigits(u) # <<>>
        /\ \A i \in 1..Len(u) : u[i] \in 48..57 \/ u[i] = 46

\* float(s) is an infinity: "inf" or "infinity" in any case, signed or not
IsInfinity(s) == LOWER(Unsigned(s)) \in {sInf, sInfinity}

\* int(x) of the float: the fraction is cut off, towards zero
TruncatedValue(s) ==
    LET n == ParseDecimal(IntegerDigits(Unsigned(s)))
    IN  IF s # <<>> /\ Head(s) = 45 THEN 0 - n ELSE n

\* int(float(str(value).strip())) inside try / except (ValueError,
\* TypeError): a decimal text parses, an infinity makes int() raise
\* OverflowError, which the except clause does not catch (raises), every
\* other text explored makes float() raise ValueError.
is_valid_numeric(value, field_name) ==
    IF value = <<>> \/ Strip(value) = <<>>
    THEN [ok |-> FALSE, error |-> <<<<"missing", field_name>>>>, num |-> 0,
          raises |-> FALSE]
    ELSE IF IsDecimal(Strip(value))
    THEN [ok |-> TRUE, error |-> <<>>, num |-> TruncatedValue(Strip(value)),
          raises |-> FALSE]
    ELSE IF IsInfinity(Strip(value))
    THEN [ok |-> FALSE, error |-> <<>>, num |-> 0, raises |-> TRUE]
    ELSE [ok |-> FALSE,
          error |-> <<<<"invalid (not numeric)", field_name>>>>, num |-> 0,
          raises |-> FALSE]

is_valid_day(day) ==
    IF day < 1 \/ day > 31 THEN <<"invalid day (not 1-31)">> ELSE <<>>

is_valid_month(month) ==
    IF month < 1 \/ month > 12 THEN <<"invalid month (not 1-12)">> ELSE <<>>

is_valid_year(year) ==
    IF year < 1940 THEN <<"birth_year older than 1940">> ELSE <<>>

\* The errors of one row, in the order clean_row appends them.
CleanErrors(row) ==
    LET d == is_valid_numeric(row.birthday, "birth_day")
        m == is_valid_numeric(row.birthmonth, "birth_month")
        y == is_valid_numeric(row.birthyear, "birth_year")
    IN  is_valid_name(row.firstname).error
        \o (IF d.ok THEN is_valid_day(d.num) ELSE d.error)
        \o (IF m.ok THEN is_valid_month(m.num) ELSE m.error)
        \o (IF y.ok THEN is_valid_year(y.num) ELSE y.error)

\* clean_row does not return: a numeric check raised OverflowError
CleanRaises(row) ==
    \/ is_valid_numeric(row.birthday, "birth_day").raises
    \/ is_valid_numeric(row.birthmonth, "birth_month").raises
    \/ is_valid_numeric(row.birthyear, "birth_year").raises

\* clean_row followed by clean_dataset's row for it: the name is stored
\* stripped, the date fields as they came, the errors joined.  The COPY of
\* append_data stores the None exclusion_reason of an included row as ''.
CleanedRow(row) ==
    [row_id              |-> row.row_id,
     original_row_number |-> row.original_row_number,
     firstname           |-> Strip(row.firstname),
     birthday            |-> row.birthday,
     birthmonth          |-> row.birthmonth,
     birthyear           |-> row.birthyear,
     exclusion_reason    |-> CleanErrors(row),
     status              |-> IF CleanErrors(row) = <<>>
                             THEN "included" ELSE "excluded"]

\* clean_dataset over a batch: one row per input row in input order, unless
\* a clean_row raises, which ends the call with that exception
clean_dataset(data) ==
    IF \E i \in 1..Len(data) : CleanRaises(data[i])
    THEN [raised |-> TRUE, rows |-> <<>>]
    ELSE [raised |-> FALSE,
          rows |-> [i \in 1..Len(data) |-> CleanedRow(data[i])]]

(***************************************************************************)
(* Ingestion (process_and_clean_sheet_data)                                *)
(***************************************************************************)
\* A sheet's data row is a sequence of up to four cells.
Cell(row_data, i) == IF Len(row_data) >= i THEN row_data[i] ELSE <<>>

\* The parsed row of data row idx (the header is row 0).  row_id is a fresh
\* uuid4, modelled as a value no other row has.
ParsedRow(p, sheet, idx) ==
    [row_id              |-> <<p, idx>>,
     original_row_number |-> idx,
     firstname           |-> Cell(sheet[idx], 1),
     birthday            |-> Cell(sheet[idx], 2),
     birthmonth          |-> Cell(sheet[idx], 3),
     birthyear           |-> Cell(sheet[idx], 4)]

\* The original table after a run over the sheet's data rows: cleared, then
\* every batch cleaned and appended.
ProcessedTable(p, sheet) ==
    {CleanedRow(ParsedRow(p, sheet, idx)) : idx \in 1..Len(sheet)}

(***************************************************************************)
(* Single-period analytics (DataAnalytics)                                 *)
(***************************************************************************)
Pairs == {"name_year", "name_month", "name_day",
          "year_month", "year_day", "month_day"}
Charts == {"birthyear", "birthmonth"}

\* A slip the queries could make: reading every row, excluded ones too.
AllRows(t) == t

\* WITH included_data AS (SELECT * FROM original WHERE status = 'included')
included_data(t) == {r \in t : r.status = "included"}

\* The rows name_frequencies groups:
\* WHERE firstname IS NOT NULL AND firstname != ''
NamedRows(t) == {r \in included_data(t) : r.firstname # <<>>}

\* The name_frequencies CTE: one row per exact firstname with COUNT(*) and
\* SUM(COUNT(*)) OVER (), the sum of the groups' counts.
name_frequencies(t) ==
    LET names == {r.firstname : r \in NamedRows(t)}
        freq  == [n \in names |->
                     Cardinality({r \in NamedRows(t) : r.firstname = n})]
    IN  {[firstname     |-> n,
          frequency     |-> freq[n],
          total_records |-> SumOver(names, freq)] : n \in names}

\* a is at or before b in ORDER BY frequency DESC, firstname
RankOrder(a, b) ==
    \/ a.frequency > b.frequency
    \/ a.frequency = b.frequency /\ StrLeq(a.firstname, b.firstname)

\* The cumulative_names CTE: SUM(frequency) OVER (ORDER BY frequency DESC,
\* firstname) is the running sum up to and including the row.
cumulative_names(nf) ==
    {[firstname        |-> e.firstname,
      frequency        |-> e.frequency,
      total_records    |-> e.total_records,
      cumulative_count |->
          SumOver({x \in nf : RankOrder(x, e)},
                  [x \in nf |-> x.frequency])] : e \in nf}

\* A slip the filter could make: a strict comparison.
BelowTop80(e) == 5 * e.cumulative_count < 4 * e.total_records

\* WHERE cumulative_percentage <= 0.80, with cumulative_percentage the
\* float8 quotient cumulative_count / total_records.  For counts below
\* 10^15 the rounded quotient is at most the float8 0.8 exactly when
\* 5 * cumulative_count <= 4 * total_records.
WithinTop80(e) == 5 * e.cumulative_count <= 4 * e.total_records

\* A slip the rounding could make: cutting the digits off.
TruncateHundredths(a, b) == (100 * a) \div b

\* ROUND(x::numeric, 2) of the quotient a / b, in hundredths (a, b >= 0)
RoundHundredths(a, b) == (2 * 100 * a + b) \div (2 * b)

\* A slip the table could make: listing every name, no 80% filter.
CommonNamesUnfiltered(t) ==
    LET top == cumulative_names(name_frequencies(t))
    IN  {[rank                  |-> Cardinality({x \in top : RankOrder(x, e)}),
          firstname             |-> e.firstname,
          frequency             |-> e.frequency,
          percentage_of_total   |->
              RoundHundredths(e.frequency * 100, e.total_records),
          cumulative_count      |-> e.cumulative_count,
          cumulative_percentage |->
              RoundHundredths(e.cumulative_count * 100, e.total_records),
          total_records         |-> e.total_records] : e \in top}

\* The rows of create_common_names_table's CREATE TABLE ... AS: the
\* top_80_names CTE with ROW_NUMBER() as rank, percentages rounded.
CommonNamesRows(t) ==
    LET top == {e \in cumulative_names(name_frequencies(t)) : WithinTop80(e)}
    IN  {[rank                  |-> Cardinality({x \in top : RankOrder(x, e)}),
          firstname             |-> e.firstname,
          frequency             |-> e.frequency,
          percentage_of_total   |->
              RoundHundredths(e.frequency * 100, e.total_records),
          cumulative_count      |-> e.cumulative_count,
          cumulative_percentage |->
              RoundHundredths(e.cumulative_count * 100, e.total_records),
          total_records         |-> e.total_records] : e \in top}

RECURSIVE Orderings(_)
\* Every sequence listing each element of S once
Orderings(S) ==
    IF S = {} THEN {<<>>}
    ELSE UNION {{<<x>> \o s : s \in Orderings(S \ {x})} : x \in S}

\* ARRAY_AGG(firstname ORDER BY frequency DESC) over the top-80 rows: any
\* order with non-increasing frequency; the order of equal frequencies is
\* not determined by the query.  NULL when there is no row.
TopNamesLists(top) ==
    IF top = {} THEN {NULL}
    ELSE {Some([i \in 1..Len(s) |-> s[i].firstname]) :
            s \in {o \in Orderings(top) :
                     \A i \in 1..(Len(o) - 1) :
                         o[i].frequency >= o[i + 1].frequency}}

\* The two key columns of a pair and the two other columns its table lists.
PairCols(pair) ==
    CASE pair = "name_year"  -> [a |-> "firstname", b |-> "birthyear",
                                 x |-> "birthday", y |-> "birthmonth"]
      [] pair = "name_month" -> [a |-> "firstname", b |-> "birthmonth",
                                 x |-> "birthday", y |-> "birthyear"]
      [] pair = "name_day"   -> [a |-> "firstname", b |-> "birthday",
                                 x |-> "birthmonth", y |-> "birthyear"]
      [] pair = "year_month" -> [a |-> "birthyear", b |-> "birthmonth",
                                 x |-> "firstname", y |-> "birthday"]
      [] pair = "year_day"   -> [a |-> "birthyear", b |-> "birthday",
                                 x |-> "firstname", y |-> "birthmonth"]
      [] pair = "month_day"  -> [a |-> "birthmonth", b |-> "birthday",
                                 x |-> "firstname", y |-> "birthyear"]

\* The rows a pair groups: included, and a name key != ''.
PairRows(t, pair) ==
    {r \in included_data(t) :
        PairCols(pair).a = "firstname" => r.firstname # <<>>}

PairKey(r, pair) == <<r[PairCols(pair).a], r[PairCols(pair).b]>>

\* A slip the grouping could make: no HAVING, every key kept.
AllKeys(t, pair) == {PairKey(r, pair) : r \in PairRows(t, pair)}

\* GROUP BY a, b HAVING COUNT(*) > 1: the keys of the duplicate groups
DuplicateKeys(t, pair) ==
    {k \in {PairKey(r, pair) : r \in PairRows(t, pair)} :
        Cardinality({r \in PairRows(t, pair) : PairKey(r, pair) = k}) > 1}

\* A slip the count could make: counting the groups, not their records.
duplicate_key_count(t, pair) == Cardinality(DuplicateKeys(t, pair))

\* COUNT(*) FILTER (WHERE (a, b) IN (duplicate keys)) over included_data
duplicate_count(t, pair) ==
    Cardinality({r \in included_data(t) :
                    PairKey(r, pair) \in DuplicateKeys(t, pair)})

\* A slip the total could make: adding up the six per-pair counts.
SumOfPairCounts(t) ==
    SumOver(Pairs, [pair \in Pairs |-> duplicate_count(t, pair)])

\* COUNT(DISTINCT row_id) FILTER (WHERE ... OR ... ) over the six pairs
total_records_with_any_duplicate(t) ==
    Cardinality({r.row_id : r \in
        {q \in included_data(t) :
            \E pair \in Pairs : PairKey(q, pair) \in DuplicateKeys(t, pair)}})

\* The single row of create_analytics_table's CREATE TABLE ... AS, given the
\* order ARRAY_AGG produced.  The outer SELECT aggregates included_data
\* without GROUP BY, so there is one row even over no records.
AnalyticsRow(t, top_names_list) ==
    LET inc == included_data(t)
        top == {e \in cumulative_names(name_frequencies(t)) : WithinTop80(e)}
    IN  [total_included_records |-> Cardinality(inc),
         unique_names |->
             Cardinality({r.firstname : r \in inc}),
         unique_full_birthdays |->
             Cardinality({<<r.birthyear, r.birthmonth, r.birthday>> :
                             r \in inc}),
         unique_name_year_combinations |->
             Cardinality({PairKey(r, "name_year") :
                             r \in PairRows(t, "name_year")}),
         unique_name_month_combinations |->
             Cardinality({PairKey(r, "name_month") :
                             r \in PairRows(t, "name_month")}),
         unique_name_day_combinations |->
             Cardinality({PairKey(r, "name_day") :
                             r \in PairRows(t, "name_day")}),
         duplicate_count |-> [pair \in Pairs |-> duplicate_count(t, pair)],
         total_duplicate_records |-> total_records_with_any_duplicate(t),
         top_80_percent_name_count |-> Cardinality(top),
         top_80_percent_record_count |->
             IF top = {} THEN NULL
             ELSE Some(SumOver(top, [e \in top |-> e.frequency])),
         top_80_percent_names |-> top_names_list]

RECURSIVE OrderByRowNumber(_)
\* The rows of S ORDER BY original_row_number (row numbers are the sheet
\* indices, distinct within a table)
OrderByRowNumber(S) ==
    IF S = {} THEN <<>>
    ELSE LET r == CHOOSE q \in S :
                     \A o \in S : q.original_row_number <= o.original_row_number
         IN  <<r>> \o OrderByRowNumber(S \ {r})

\* The rows of one duplicates table of create_duplicate_groups_view: one
\* per key with COUNT(*) > 1, the ARRAY_AGGs ordered by original_row_number.
DuplicateGroupRows(t, pair) ==
    LET c == PairCols(pair)
        members(k) ==
            OrderByRowNumber({r \in PairRows(t, pair) : PairKey(r, pair) = k})
    IN  {[key_a                |-> k[1],
          key_b                |-> k[2],
          duplicate_count      |-> Len(members(k)),
          row_ids              |->
              [i \in 1..Len(members(k)) |-> members(k)[i].row_id],
          original_row_numbers |->
              [i \in 1..Len(members(k)) |->
                  members(k)[i].original_row_number],
          extra_x              |->
              [i \in 1..Len(members(k)) |-> members(k)[i][c.x]],
          extra_y              |->
              [i \in 1..Len(members(k)) |-> members(k)[i][c.y]]] :
         k \in DuplicateKeys(t, pair)}

\* A chart table of create_visualization_tables: COUNT(*) per value
ChartRows(t, chart) ==
    LET rows == included_data(t)
    IN  {[value |-> v, count |-> Cardinality({r \in rows : r[chart] = v})] :
            v \in {r[chart] : r \in rows}}

(***************************************************************************)
(* Cross-period comparison (ComparisonAnalytics)                           *)
(***************************************************************************)
\* SELECT DISTINCT LOWER(TRIM(firstname)) ... WHERE status = 'included' AND
\* firstname IS NOT NULL AND firstname != ''
NormalizedNames(t) == {Normalized(r.firstname) : r \in NamedRows(t)}

\* A slip the frequencies could make: counting the exact spelling only.
ExactFrequency(t, n) == Cardinality({r \in NamedRows(t) : r.firstname = n})

\* temp_jan_freq / temp_apr_freq: COUNT(*) ... GROUP BY LOWER(TRIM(firstname))
NormalizedFrequency(t, n) ==
    Cardinality({r \in NamedRows(t) : Normalized(r.firstname) = n})

\* The ranks a LEFT JOIN of a common_names table ON LOWER(TRIM(firstname))
\* = n yields: one per matching row, a single NULL when none matches.
JoinedRanks(cn, n) ==
    IF {c \in cn : Normalized(c.firstname) = n} = {}
    THEN {NULL}
    ELSE {Some(c.rank) : c \in {x \in cn : Normalized(x.firstname) = n}}

\* The rows of clients_2025_comparison_common_names.
ComparisonCommonRows(jo, ao, jc, ac) ==
    LET temp_common_names == NormalizedNames(jo) \cap NormalizedNames(ao)
    IN  UNION {
          {[firstname       |-> n,
            jan_frequency   |-> NormalizedFrequency(jo, n),
            apr_frequency   |-> NormalizedFrequency(ao, n),
            total_frequency |->
                NormalizedFrequency(jo, n) + NormalizedFrequency(ao, n),
            in_jan_top80    |-> jr # NULL,
            in_apr_top80    |-> ar # NULL,
            jan_rank        |-> jr,
            apr_rank        |-> ar] :
              jr \in JoinedRanks(jc, n), ar \in JoinedRanks(ac, n)} :
          n \in temp_common_names}

\* The rows of clients_2025_comparison_unique_jan for (xo, yo, xc) = (jan
\* original, apr original, jan common names), and of ..._unique_apr with
\* the periods exchanged: the two methods differ in the names only.
ComparisonUniqueRows(xo, yo, xc) ==
    LET temp_unique_names == NormalizedNames(xo) \ NormalizedNames(yo)
    IN  UNION {
          {[row_id               |-> r.row_id,
            original_row_number  |-> r.original_row_number,
            firstname            |-> r.firstname,
            birthyear            |-> r.birthyear,
            birthmonth           |-> r.birthmonth,
            birthday             |-> r.birthday,
            firstname_normalized |-> Normalized(r.firstname),
            in_top80             |-> rk # NULL,
            rank                 |-> rk] :
              rk \in JoinedRanks(xc, Normalized(r.firstname))} :
          r \in {q \in NamedRows(xo) :
                    Normalized(q.firstname) \in temp_unique_names}}

\* A slip the summary could make: counting the exact spellings.
UniqueNameCountExact(t) == Cardinality({r.firstname : r \in NamedRows(t)})

\* jan_stats / apr_stats: COUNT(DISTINCT LOWER(TRIM(firstname)))
UniqueNameCount(t) ==
    Cardinality({Normalized(r.firstname) : r \in NamedRows(t)})

\* A slip the percentage could make: 0 in place of NULL over no names.
PercentageOrZero(a, b) ==
    IF b = 0 THEN Some(0) ELSE Some(RoundHundredths(a * 100, b))

\* ROUND(a::numeric / NULLIF(b, 0) * 100, 2), in hundredths
Percentage(a, b) ==
    IF b = 0 THEN NULL ELSE Some(RoundHundredths(a * 100, b))

\* The single row of clients_2025_comparison_summary.
ComparisonSummaryRow(jo, ao, jc, ac) ==
    LET jan_included == NormalizedNames(jo)
        apr_included == NormalizedNames(ao)
        jan_top80 == {Normalized(c.firstname) : c \in jc}
        apr_top80 == {Normalized(c.firstname) : c \in ac}
        common == jan_included \cap apr_included
        unique_jan == jan_included \ apr_included
        unique_apr == apr_included \ jan_included
        jan_top80_in_apr == jan_top80 \cap apr_included
        apr_top80_in_jan == apr_top80 \cap jan_included
        both_top80 == jan_top80 \cap apr_top80
        jan_unique_names == UniqueNameCount(jo)
        apr_unique_names == UniqueNameCount(ao)
    IN  [jan_total_records       |-> Cardinality(NamedRows(jo)),
         jan_unique_names        |-> jan_unique_names,
         jan_top80_count         |-> Cardinality(jan_top80),
         apr_total_records       |-> Cardinality(NamedRows(ao)),
         apr_unique_names        |-> apr_unique_names,
         apr_top80_count         |-> Cardinality(apr_top80),
         common_names_count      |-> Cardinality(common),
         unique_jan_names_count  |-> Cardinality(unique_jan),
         unique_apr_names_count  |-> Cardinality(unique_apr),
         jan_top80_in_apr_count  |-> Cardinality(jan_top80_in_apr),
         apr_top80_in_jan_count  |-> Cardinality(apr_top80_in_jan),
         both_top80_count        |-> Cardinality(both_top80),
         common_names_pct_of_jan |->
             Percentage(Cardinality(common), jan_unique_names),
         common_names_pct_of_apr |->
             Percentage(Cardinality(common), apr_unique_names),
         jan_top80_in_apr_pct    |->
             Percentage(Cardinality(jan_top80_in_apr), Cardinality(jan_top80)),
         apr_top80_in_jan_pct    |->
             Percentage(Cardinality(apr_top80_in_jan), Cardinality(apr_top80))]

(***************************************************************************)
(* The sheets explored                                                     *)
(***************************************************************************)
\* Sheets whose rows differ in the name: exact names, case variants, a name
\* padded with spaces and a missing name.
RawRowsNames ==
    {<<n, sDay1, sMonth1, sYear1990>> :
        n \in {sANN, sann, sBOB, sPadded, sEmpty}}

\* Sheets whose rows differ in every attribute, with a row cut short after
\* the day and a row whose day is out of range.
RawRowsDates ==
    {<<n, d, m, sYear1990>> : n \in {sANN, sann}, d \in {sDay1, sDay2},
                              m \in {sMonth1, sMonth2}}
    \cup {<<sANN, sDay1, sMonth1, sYear1991>>,
          <<sANN, sDay1>>, <<sANN, sDay45, sMonth1, sYear1990>>}

\* Sheets of the two periods compared: three spellings of one name, another
\* name and a name too short.
RawRowsCmp ==
    {<<n, sDay1, sMonth1, sYear1990>> :
        n \in {sANN, sANn, sann, sBOB, sAN}}

SheetsOver(rows, n) == UNION {[1..k -> rows] : k \in 1..n}

SinglePeriodSheets ==
    SheetsOver(RawRowsNames, MaxRowsNames)
    \cup SheetsOver(RawRowsDates, MaxRowsDates)

TwoPeriodSheets ==
    {pair \in SheetsOver(RawRowsCmp, MaxRowsCmp - 1)
              \X SheetsOver(RawRowsCmp, MaxRowsCmp - 1) :
        Len(pair[1]) + Len(pair[2]) <= MaxRowsCmp}

\* Sheets of two periods over three different names: January lists
\* MaxRowsThree rows, April fewer.
RawRowsThree ==
    {<<n, sDay1, sMonth1, sYear1990>> : n \in {sANN, sBOB, sCAL}}

ThreeNameSheets ==
    [1..MaxRowsThree -> RawRowsThree]
        \X SheetsOver(RawRowsThree, MaxRowsThree - 1)

\* The four records of the specification's duplicate-detection scenario,
\* as (name, day, month, year)
DuplicateScenarioSheet ==
    <<<<sALICE, sDay1, sMonth1, sYear1990>>,
      <<salice, sDay2, sMonth1, sYear1990>>,
      <<sBOB, sDay3, sMonth2, sYear1991>>,
      <<sALICE, sDay4, sMonth1, sYear1992>>>>

\* clean_dataset has not been called
NotCleaned == [called |-> FALSE, raised |-> FALSE, rows |-> <<>>]

\* The two requests for one period
Runs == {1, 2}

RunsIdle ==
    /\ run_pc = [r \in Runs |-> 0]
    /\ run_response = [r \in Runs |-> "none"]

\* No call has returned or raised
NoResult == [status |-> "none", value |-> <<>>, error |-> "none"]

CleaningIdle ==
    /\ clean_in = <<>>
    /\ clean_out = NotCleaned

FetchingIdle ==
    /\ fetch_pc = "idle"
    /\ attempt = 0
    /\ fetch_log = <<>>
    /\ fetch_result = NoResult

IngestionIdle ==
    /\ raw_data = <<>>
    /\ batch_size = 0
    /\ batch_num = 0
    /\ total_included = 0
    /\ total_excluded = 0
    /\ ingest_pc = "idle"
    /\ ingest_result = NoResult
    /\ ingest_log = <<>>
    /\ uncommitted = FALSE

(***************************************************************************)
(* The state machine                                                       *)
(***************************************************************************)
\* The sheets have been processed (January alone, or both periods); no
\* analytics or comparison table exists yet.
Init ==
    /\ \/ \E sheet \in SinglePeriodSheets \cup {DuplicateScenarioSheet} :
             original = [p \in Periods |->
                            IF p = "jan"
                            THEN Table(ProcessedTable(p, sheet))
                            ELSE NoTable]
       \/ \E pair \in TwoPeriodSheets \cup ThreeNameSheets :
             original = [p \in Periods |->
                            IF p = "jan"
                            THEN Table(ProcessedTable(p, pair[1]))
                            ELSE Table(ProcessedTable(p, pair[2]))]
    /\ analytics = [p \in Periods |-> NoTable]
    /\ duplicates = [p \in Periods |-> [pair \in Pairs |-> NoTable]]
    /\ charts = [p \in Periods |-> [c \in Charts |-> NoTable]]
    /\ common_names = [p \in Periods |-> NoTable]
    /\ comparison_common_names = NoTable
    /\ comparison_unique_jan = NoTable
    /\ comparison_unique_apr = NoTable
    /\ comparison_summary = NoTable
    /\ an_pc = [p \in Periods |-> 0]
    /\ cmp_pc = 0
    /\ cmp_response = "none"
    /\ RunsIdle
    /\ CleaningIdle
    /\ FetchingIdle
    /\ IngestionIdle

\* POST /analytics/<sheet_key>/create over an existing original table: the
\* analytics row, the six duplicates tables, the two chart tables and the
\* common names table are dropped and created again from it.
CreateAnalytics(p) ==
    /\ original[p].exists
    /\ \E top_names_list \in TopNamesLists(
            {e \in cumulative_names(name_frequencies(original[p].rows)) :
                WithinTop80(e)}) :
          analytics' = [analytics EXCEPT
              ![p] = Table({AnalyticsRow(original[p].rows, top_names_list)})]
    /\ duplicates' = [duplicates EXCEPT
          ![p] = [pair \in Pairs |->
                     Table(DuplicateGroupRows(original[p].rows, pair))]]
    /\ charts' = [charts EXCEPT
          ![p] = [c \in Charts |-> Table(ChartRows(original[p].rows, c))]]
    /\ common_names' = [common_names EXCEPT
          ![p] = Table(CommonNamesRows(original[p].rows))]
    /\ UNCHANGED <<original, comparison_common_names, comparison_unique_jan,
                   comparison_unique_apr, comparison_summary, requests>>
    /\ UNCHANGED <<acquisition, runs>>

\* The same request while the period's original table does not exist:
\* create_analytics_table has dropped the analytics table when its CREATE
\* fails, and the error ends the request (answered with status 500).
CreateAnalyticsNoData(p) ==
    /\ ~original[p].exists
    /\ analytics' = [analytics EXCEPT ![p] = NoTable]
    /\ UNCHANGED <<original, duplicates, charts, common_names,
                   comparison_common_names, comparison_unique_jan,
                   comparison_unique_apr, comparison_summary, requests>>
    /\ UNCHANGED <<acquisition, runs>>

SourceTablesExist ==
    \A p \in Periods : original[p].exists /\ common_names[p].exists

\* POST /comparison/create with the four source tables present.
CreateComparison ==
    /\ SourceTablesExist
    /\ LET jo == original["jan"].rows
           ao == original["apr"].rows
           jc == common_names["jan"].rows
           ac == common_names["apr"].rows
       IN  /\ comparison_common_names' =
                  Table(ComparisonCommonRows(jo, ao, jc, ac))
           /\ comparison_unique_jan' = Table(ComparisonUniqueRows(jo, ao, jc))
           /\ comparison_unique_apr' = Table(ComparisonUniqueRows(ao, jo, ac))
           /\ comparison_summary' =
                  Table({ComparisonSummaryRow(jo, ao, jc, ac)})
    /\ UNCHANGED <<original, analytics, duplicates, charts, common_names,
                   requests>>
    /\ UNCHANGED <<acquisition, runs>>

\* The same request with a source table missing: _verify_tables_exist
\* raises before any table is touched (answered with status 500).
CreateComparisonMissing ==
    /\ ~SourceTablesExist
    /\ UNCHANGED <<original, analytics, duplicates, charts, common_names,
                   comparison_common_names, comparison_unique_jan,
                   comparison_unique_apr, comparison_summary, requests>>
    /\ UNCHANGED <<acquisition, runs>>

Next ==
    \/ \E p \in Periods : CreateAnalytics(p)
    \/ \E p \in Periods : CreateAnalyticsNoData(p)
    \/ CreateComparison
    \/ CreateComparisonMissing

Spec == Init /\ [][Next]_vars

(***************************************************************************)
(* The requests statement by statement.  execute_sql commits after every   *)
(* statement, so each DROP and each CREATE TABLE ... AS is a step of its   *)
(* own that requests served at the same time can interleave with.          *)
(* Statements without an effect on the tables above (SET, the indexes,     *)
(* the session's temporary tables over the original tables) are part of    *)
(* the step that follows them.                                             *)
(***************************************************************************)
PairOrder == <<"name_year", "name_month", "name_day",
               "year_month", "year_day", "month_day">>
ChartOrder == <<"birthyear", "birthmonth">>

\* DROP TABLE IF EXISTS t; CREATE TABLE t AS ..., for each key in turn
DropThenCreate(kind, keys) ==
    [i \in 1..(2 * Len(keys)) |->
        [op   |-> IF i % 2 = 1 THEN "drop" ELSE "create",
         kind |-> kind,
         key  |-> keys[(i + 1) \div 2]]]

\* The statements of create_analytics in the order the route runs them:
\* create_analytics_table, create_duplicate_groups_view,
\* create_visualization_tables, create_common_names_table.
AnalyticsStatements ==
    DropThenCreate("analytics", <<"-">>)
        \o DropThenCreate("duplicates", PairOrder)
        \o DropThenCreate("charts", ChartOrder)
        \o DropThenCreate("common_names", <<"-">>)

\* The statements of create_comparison_analytics: _verify_tables_exist over
\* the four source tables, then the four tables in turn.  reads names the
\* periods whose common names table the statement selects from.
ComparisonStatements ==
    <<[op |-> "verify", src |-> "original", period |-> "jan",
       out |-> "-", reads |-> {}],
      [op |-> "verify", src |-> "common_names", period |-> "jan",
       out |-> "-", reads |-> {}],
      [op |-> "verify", src |-> "original", period |-> "apr",
       out |-> "-", reads |-> {}],
      [op |-> "verify", src |-> "common_names", period |-> "apr",
       out |-> "-", reads |-> {}],
      [op |-> "drop", src |-> "-", period |-> "-",
       out |-> "common_names", reads |-> {}],
      [op |-> "read", src |-> "-", period |-> "-",
       out |-> "-", reads |-> {"jan"}],
      [op |-> "read", src |-> "-", period |-> "-",
       out |-> "-", reads |-> {"apr"}],
      [op |-> "create", src |-> "-", period |-> "-",
       out |-> "common_names", reads |-> {}],
      [op |-> "drop", src |-> "-", period |-> "-",
       out |-> "unique_jan", reads |-> {}],
      [op |-> "create", src |-> "-", period |-> "-",
       out |-> "unique_jan", reads |-> {"jan"}],
      [op |-> "drop", src |-> "-", period |-> "-",
       out |-> "unique_apr", reads |-> {}],
      [op |-> "create", src |-> "-", period |-> "-",
       out |-> "unique_apr", reads |-> {"apr"}],
      [op |-> "drop", src |-> "-", period |-> "-",
       out |-> "summary", reads |-> {}],
      [op |-> "create", src |-> "-", period |-> "-",
       out |-> "summary", reads |-> {"jan", "apr"}]>>

\* The position after one more statement of n; 0 when the request is over
Advance(pc, n) == IF pc + 1 = n THEN 0 ELSE pc + 1

NextAnalyticsStatement(p) == AnalyticsStatements[an_pc[p] + 1]

NextComparisonStatement == ComparisonStatements[cmp_pc + 1]

\* The table of period p a statement names becomes value
WriteAnalyticsTable(p, st, value) ==
    /\ analytics' = IF st.kind = "analytics"
                    THEN [analytics EXCEPT ![p] = value] ELSE analytics
    /\ duplicates' = IF st.kind = "duplicates"
                     THEN [duplicates EXCEPT ![p][st.key] = value]
                     ELSE duplicates
    /\ charts' = IF st.kind = "charts"
                 THEN [charts EXCEPT ![p][st.key] = value] ELSE charts
    /\ common_names' = IF st.kind = "common_names"
                       THEN [common_names EXCEPT ![p] = value]
                       ELSE common_names

\* The rows a CREATE TABLE ... AS of create_analytics can produce
AnalyticsTableRows(p, st) ==
    LET t == original[p].rows
    IN  CASE st.kind = "analytics" ->
                 {{AnalyticsRow(t, top_names_list)} :
                     top_names_list \in TopNamesLists(
                         {e \in cumulative_names(name_frequencies(t)) :
                             WithinTop80(e)})}
          [] st.kind = "duplicates" -> {DuplicateGroupRows(t, st.key)}
          [] st.kind = "charts" -> {ChartRows(t, st.key)}
          [] st.kind = "common_names" -> {CommonNamesRows(t)}

\* DROP TABLE IF EXISTS of create_analytics
AnalyticsDrop(p) ==
    /\ NextAnalyticsStatement(p).op = "drop"
    /\ WriteAnalyticsTable(p, NextAnalyticsStatement(p), NoTable)
    /\ an_pc' = [an_pc EXCEPT
                    ![p] = Advance(an_pc[p], Len(AnalyticsStatements))]
    /\ UNCHANGED <<original, comparison_common_names, comparison_unique_jan,
                   comparison_unique_apr, comparison_summary,
                   cmp_pc, cmp_response>>
    /\ UNCHANGED <<acquisition, runs>>

\* CREATE TABLE ... AS of create_analytics over the period's original table
AnalyticsCreate(p) ==
    /\ NextAnalyticsStatement(p).op = "create"
    /\ original[p].exists
    /\ \E rows \in AnalyticsTableRows(p, NextAnalyticsStatement(p)) :
          WriteAnalyticsTable(p, NextAnalyticsStatement(p), Table(rows))
    /\ an_pc' = [an_pc EXCEPT
                    ![p] = Advance(an_pc[p], Len(AnalyticsStatements))]
    /\ UNCHANGED <<original, comparison_common_names, comparison_unique_jan,
                   comparison_unique_apr, comparison_summary,
                   cmp_pc, cmp_response>>
    /\ UNCHANGED <<acquisition, runs>>

\* The same statement without the original table: execute_sql rolls back
\* and raises, the route answers 500.
AnalyticsCreateFails(p) ==
    /\ NextAnalyticsStatement(p).op = "create"
    /\ ~original[p].exists
    /\ an_pc' = [an_pc EXCEPT ![p] = 0]
    /\ UNCHANGED <<original, analytics, duplicates, charts, common_names,
                   comparison_common_names, comparison_unique_jan,
                   comparison_unique_apr, comparison_summary,
                   cmp_pc, cmp_response>>
    /\ UNCHANGED <<acquisition, runs>>

\* A verification that takes every table for present.
AssumeExists(src, p) == TRUE

\* SELECT EXISTS (SELECT FROM information_schema.tables WHERE table_name = t)
TableExists(src, p) ==
    IF src = "original" THEN original[p].exists ELSE common_names[p].exists

\* One round of _verify_tables_exist's loop over a table that exists
ComparisonVerify ==
    /\ NextComparisonStatement.op = "verify"
    /\ TableExists(NextComparisonStatement.src, NextComparisonStatement.period)
    /\ cmp_pc' = cmp_pc + 1
    /\ cmp_response' = "none"
    /\ UNCHANGED <<original, analytics, duplicates, charts, common_names,
                   comparison_common_names, comparison_unique_jan,
                   comparison_unique_apr, comparison_summary, an_pc>>
    /\ UNCHANGED <<acquisition, runs>>

\* The round over a missing table: ValueError("Required table not found"),
\* answered with status 500.
ComparisonVerifyFails ==
    /\ NextComparisonStatement.op = "verify"
    /\ ~TableExists(NextComparisonStatement.src,
                    NextComparisonStatement.period)
    /\ cmp_pc' = 0
    /\ cmp_response' = "not_found"
    /\ UNCHANGED <<original, analytics, duplicates, charts, common_names,
                   comparison_common_names, comparison_unique_jan,
                   comparison_unique_apr, comparison_summary, an_pc>>
    /\ UNCHANGED <<acquisition, runs>>

\* The comparison table a statement names becomes value
WriteComparisonTable(out, value) ==
    /\ comparison_common_names' =
           IF out = "common_names" THEN value ELSE comparison_common_names
    /\ comparison_unique_jan' =
           IF out = "unique_jan" THEN value ELSE comparison_unique_jan
    /\ comparison_unique_apr' =
           IF out = "unique_apr" THEN value ELSE comparison_unique_apr
    /\ comparison_summary' =
           IF out = "summary" THEN value ELSE comparison_summary

\* The rows of a comparison table.  A common names table, once it exists,
\* holds CommonNamesRows of its original table, also in the session's
\* temporary copies temp_jan_top80 and temp_apr_top80.
ComparisonTableRows(out) ==
    LET jo == original["jan"].rows
        ao == original["apr"].rows
        jc == CommonNamesRows(jo)
        ac == CommonNamesRows(ao)
    IN  CASE out = "common_names" -> ComparisonCommonRows(jo, ao, jc, ac)
          [] out = "unique_jan" -> ComparisonUniqueRows(jo, ao, jc)
          [] out = "unique_apr" -> ComparisonUniqueRows(ao, jo, ac)
          [] out = "summary" -> {ComparisonSummaryRow(jo, ao, jc, ac)}

\* The tables a statement selects from exist
SourcesReadable(st) ==
    /\ \A p \in Periods : original[p].exists
    /\ \A p \in st.reads : common_names[p].exists

\* DROP TABLE IF EXISTS of a comparison table
ComparisonDrop ==
    /\ NextComparisonStatement.op = "drop"
    /\ WriteComparisonTable(NextComparisonStatement.out, NoTable)
    /\ cmp_pc' = cmp_pc + 1
    /\ UNCHANGED <<original, analytics, duplicates, charts, common_names,
                   an_pc, cmp_response>>
    /\ UNCHANGED <<acquisition, runs>>

\* CREATE TEMP TABLE temp_jan_top80 / temp_apr_top80 AS SELECT ... FROM a
\* common names table
ComparisonRead ==
    /\ NextComparisonStatement.op = "read"
    /\ SourcesReadable(NextComparisonStatement)
    /\ cmp_pc' = cmp_pc + 1
    /\ UNCHANGED <<original, analytics, duplicates, charts, common_names,
                   comparison_common_names, comparison_unique_jan,
                   comparison_unique_apr, comparison_summary,
                   an_pc, cmp_response>>
    /\ UNCHANGED <<acquisition, runs>>

\* CREATE TABLE ... AS of a comparison table; after the last one the route
\* answers success.
ComparisonCreate ==
    /\ NextComparisonStatement.op = "create"
    /\ SourcesReadable(NextComparisonStatement)
    /\ WriteComparisonTable(NextComparisonStatement.out,
           Table(ComparisonTableRows(NextComparisonStatement.out)))
    /\ cmp_pc' = Advance(cmp_pc, Len(ComparisonStatements))
    /\ cmp_response' = IF cmp_pc + 1 = Len(ComparisonStatements)
                       THEN "ok" ELSE cmp_response
    /\ UNCHANGED <<original, analytics, duplicates, charts, common_names,
                   an_pc>>
    /\ UNCHANGED <<acquisition, runs>>

\* A statement selecting from a table that does not exist: execute_sql
\* rolls the statement back and raises, the route answers 500; what the
\* statements before it committed stays.
ComparisonStatementFails ==
    /\ NextComparisonStatement.op \in {"read", "create"}
    /\ ~SourcesReadable(NextComparisonStatement)
    /\ cmp_pc' = 0
    /\ cmp_response' = "error"
    /\ UNCHANGED <<original, analytics, duplicates, charts, common_names,
                   comparison_common_names, comparison_unique_jan,
                   comparison_unique_apr, comparison_summary, an_pc>>
    /\ UNCHANGED <<acquisition, runs>>

\* The sheets of the statement-level runs
StepRows(names) ==
    [i \in 1..Len(names) |-> <<names[i], sDay1, sMonth1, sYear1990>>]

\* Both periods processed, or January alone; nothing computed yet.
InitSteps ==
    /\ \/ original = [p \in Periods |->
                         IF p = "jan"
                         THEN Table(ProcessedTable(p,
                                  StepRows(<<sANN, sBOB, sCAL>>)))
                         ELSE Table(ProcessedTable(p,
                                  StepRows(<<sANN, sBOB>>)))]
       \/ original = [p \in Periods |->
                         IF p = "jan"
                         THEN Table(ProcessedTable(p,
                                  StepRows(<<sANN, sBOB, sCAL>>)))
                         ELSE NoTable]
    /\ analytics = [p \in Periods |-> NoTable]
    /\ duplicates = [p \in Periods |-> [pair \in Pairs |-> NoTable]]
    /\ charts = [p \in Periods |-> [c \in Charts |-> NoTable]]
    /\ common_names = [p \in Periods |-> NoTable]
    /\ comparison_common_names = NoTable
    /\ comparison_unique_jan = NoTable
    /\ comparison_unique_apr = NoTable
    /\ comparison_summary = NoTable
    /\ an_pc = [p \in Periods |-> 0]
    /\ cmp_pc = 0
    /\ cmp_response = "none"
    /\ RunsIdle
    /\ CleaningIdle
    /\ FetchingIdle
    /\ IngestionIdle

NextSteps ==
    \/ \E p \in Periods : AnalyticsDrop(p)
    \/ \E p \in Periods : AnalyticsCreate(p)
    \/ \E p \in Periods : AnalyticsCreateFails(p)
    \/ ComparisonVerify
    \/ ComparisonVerifyFails
    \/ ComparisonDrop
    \/ ComparisonRead
    \/ ComparisonCreate
    \/ ComparisonStatementFails

SpecSteps == InitSteps /\ [][NextSteps]_vars

(***************************************************************************)
(* Validation on its own: clean_dataset called on a batch of parsed rows.  *)
(***************************************************************************)
\* Rows with a valid, a short, a padded and a non-letter name and with a
\* valid, an out-of-range, a fractional and an infinite day; rows with a
\* month or a year out of range, with letters for a day, and a row without
\* cells.
RawRowsClean ==
    {<<n, d, sMonth1, sYear1990>> :
        n \in {sANN, sAN, sPadded, sA1N},
        d \in {sDay1, sDay45, sDayHalf, sInf}}
    \cup {<<sANN, sDay1, sMonth13, sYear1990>>,
          <<sANN, sDay1, sMonth1, sYear1939>>,
          <<sANN, sBOB, sMonth1, sYear1990>>,
          <<sANN, sDay1, sMonth1, sInfinity>>,
          <<>>}

\* The batch_with_ids list of a sheet's rows
BatchWithIds(sheet) == [i \in 1..Len(sheet) |-> ParsedRow("jan", sheet, i)]

InitClean ==
    /\ \E sheet \in SheetsOver(RawRowsClean, MaxCleanBatch) :
          clean_in = BatchWithIds(sheet)
    /\ clean_out = NotCleaned
    /\ FetchingIdle
    /\ IngestionIdle
    /\ original = [p \in Periods |-> NoTable]
    /\ analytics = [p \in Periods |-> NoTable]
    /\ duplicates = [p \in Periods |-> [pair \in Pairs |-> NoTable]]
    /\ charts = [p \in Periods |-> [c \in Charts |-> NoTable]]
    /\ common_names = [p \in Periods |-> NoTable]
    /\ comparison_common_names = NoTable
    /\ comparison_unique_jan = NoTable
    /\ comparison_unique_apr = NoTable
    /\ comparison_summary = NoTable
    /\ an_pc = [p \in Periods |-> 0]
    /\ cmp_pc = 0
    /\ cmp_response = "none"
    /\ RunsIdle

\* clean_dataset returns self.all_data
CleanDatasetReturns ==
    /\ ~clean_out.called
    /\ ~clean_dataset(clean_in).raised
    /\ clean_out' = [called |-> TRUE, raised |-> FALSE,
                     rows |-> clean_dataset(clean_in).rows]
    /\ UNCHANGED <<clean_in, stored, requests, fetching, ingestion>>

\* clean_dataset ends with the OverflowError of a clean_row
CleanDatasetRaises ==
    /\ ~clean_out.called
    /\ clean_dataset(clean_in).raised
    /\ clean_out' = [called |-> TRUE, raised |-> TRUE, rows |-> <<>>]
    /\ UNCHANGED <<clean_in, stored, requests, fetching, ingestion>>

NextClean ==
    \/ CleanDatasetReturns
    \/ CleanDatasetRaises

SpecClean == InitClean /\ [][NextClean]_vars

(***************************************************************************)
(* Two create_analytics requests for January served at the same time, each *)
(* on a connection of its own, statement by statement.                     *)
(***************************************************************************)
\* The table of January a statement names
NamedTable(st) ==
    CASE st.kind = "analytics" -> analytics["jan"]
      [] st.kind = "duplicates" -> duplicates["jan"][st.key]
      [] st.kind = "charts" -> charts["jan"][st.key]
      [] st.kind = "common_names" -> common_names["jan"]

NextRunStatement(r) == AnalyticsStatements[run_pc[r] + 1]

\* The request is being served
Running(r) ==
    /\ run_response[r] = "none"
    /\ run_pc[r] < Len(AnalyticsStatements)

\* The statement is done; after the last one the route answers success
RunAdvances(r) ==
    /\ run_pc' = [run_pc EXCEPT ![r] = run_pc[r] + 1]
    /\ run_response' =
           IF run_pc[r] + 1 = Len(AnalyticsStatements)
           THEN [run_response EXCEPT ![r] = "ok"]
           ELSE run_response

InitTwoRuns ==
    /\ original = [p \in Periods |->
                      IF p = "jan"
                      THEN Table(ProcessedTable(p,
                               StepRows(<<sANN, sBOB, sCAL>>)))
                      ELSE NoTable]
    /\ analytics = [p \in Periods |-> NoTable]
    /\ duplicates = [p \in Periods |-> [pair \in Pairs |-> NoTable]]
    /\ charts = [p \in Periods |-> [c \in Charts |-> NoTable]]
    /\ common_names = [p \in Periods |-> NoTable]
    /\ comparison_common_names = NoTable
    /\ comparison_unique_jan = NoTable
    /\ comparison_unique_apr = NoTable
    /\ comparison_summary = NoTable
    /\ an_pc = [p \in Periods |-> 0]
    /\ cmp_pc = 0
    /\ cmp_response = "none"
    /\ RunsIdle
    /\ CleaningIdle
    /\ FetchingIdle
    /\ IngestionIdle

\* DROP TABLE IF EXISTS
RunDrop(r) ==
    /\ Running(r)
    /\ NextRunStatement(r).op = "drop"
    /\ WriteAnalyticsTable("jan", NextRunStatement(r), NoTable)
    /\ RunAdvances(r)
    /\ UNCHANGED <<original, comparison_common_names, comparison_unique_jan,
                   comparison_unique_apr, comparison_summary,
                   an_pc, cmp_pc, cmp_response, acquisition>>

\* CREATE TABLE ... AS while no table of that name exists
RunCreate(r) ==
    /\ Running(r)
    /\ NextRunStatement(r).op = "create"
    /\ ~NamedTable(NextRunStatement(r)).exists
    /\ \E rows \in AnalyticsTableRows("jan", NextRunStatement(r)) :
          WriteAnalyticsTable("jan", NextRunStatement(r), Table(rows))
    /\ RunAdvances(r)
    /\ UNCHANGED <<original, comparison_common_names, comparison_unique_jan,
                   comparison_unique_apr, comparison_summary,
                   an_pc, cmp_pc, cmp_response, acquisition>>

\* CREATE TABLE ... AS while the other request's table of that name
\* exists: relation already exists; execute_sql rolls back and raises, the
\* route answers 500.
RunCreateFails(r) ==
    /\ Running(r)
    /\ NextRunStatement(r).op = "create"
    /\ NamedTable(NextRunStatement(r)).exists
    /\ run_response' = [run_response EXCEPT ![r] = "error"]
    /\ UNCHANGED <<run_pc, stored, an_pc, cmp_pc, cmp_response,
                   acquisition>>

NextTwoRuns ==
    \/ \E r \in Runs : RunDrop(r)
    \/ \E r \in Runs : RunCreate(r)
    \/ \E r \in Runs : RunCreateFails(r)

SpecTwoRuns == InitTwoRuns /\ [][NextTwoRuns]_vars

(***************************************************************************)
(* The three operations in any order: sheets are processed (again), the    *)
(* analytics and the comparison requested, each request served on its own. *)
(***************************************************************************)
\* Sheets with different top-80% names: ANN and BOB of three names once
\* each, CAL alone, ANN alone
OperationSheets ==
    {StepRows(<<sANN, sBOB, sCAL>>),
     StepRows(<<sBOB, sCAL, sCAL>>),
     StepRows(<<sANN, sANN, sBOB>>)}

InitOperations ==
    /\ original = [p \in Periods |-> NoTable]
    /\ analytics = [p \in Periods |-> NoTable]
    /\ duplicates = [p \in Periods |-> [pair \in Pairs |-> NoTable]]
    /\ charts = [p \in Periods |-> [c \in Charts |-> NoTable]]
    /\ common_names = [p \in Periods |-> NoTable]
    /\ comparison_common_names = NoTable
    /\ comparison_unique_jan = NoTable
    /\ comparison_unique_apr = NoTable
    /\ comparison_summary = NoTable
    /\ an_pc = [p \in Periods |-> 0]
    /\ cmp_pc = 0
    /\ cmp_response = "none"
    /\ RunsIdle
    /\ CleaningIdle
    /\ FetchingIdle
    /\ IngestionIdle

\* POST /process/<sheet_key> served to the end: the period's original table
\* is created if need be, cleared and filled from the sheet.  No derived
\* table is touched.
Process(p) ==
    /\ \E sheet \in OperationSheets :
          original' = [original EXCEPT
              ![p] = Table(ProcessedTable(p, sheet))]
    /\ UNCHANGED <<analytics, duplicates, charts, common_names,
                   comparison_common_names, comparison_unique_jan,
                   comparison_unique_apr, comparison_summary,
                   requests, acquisition>>

NextOperations ==
    \/ \E p \in Periods : Process(p)
    \/ \E p \in Periods : CreateAnalytics(p)
    \/ \E p \in Periods : CreateAnalyticsNoData(p)
    \/ CreateComparison
    \/ CreateComparisonMissing

SpecOperations == InitOperations /\ [][NextOperations]_vars

(***************************************************************************)
(* Ingestion step by step: one run of process_and_clean_sheet_data for     *)
(* January over a table that is absent or holds an earlier sheet.          *)
(* SupabaseManager.execute_sql does not commit, so CREATE TABLE IF NOT     *)
(* EXISTS and TRUNCATE stay in the connection's open transaction until     *)
(* append_data commits or rolls back.  original is what committed, the     *)
(* contents every other connection reads.                                  *)
(***************************************************************************)
\* Rows of the sheets ingested: two valid ones, one excluded for its name
\* and one whose day makes clean_dataset raise
RawRowsIngest ==
    {<<sANN, sDay1, sMonth1, sYear1990>>,
     <<sBOB, sDay2, sMonth1, sYear1990>>,
     <<sAN, sDay1, sMonth1, sYear1990>>,
     <<sANN, sInf, sMonth1, sYear1990>>}

\* The sheet ingested before
PreviousSheet ==
    <<<<sCAL, sDay1, sMonth1, sYear1990>>,
      <<sCAL, sDay2, sMonth1, sYear1990>>>>

\* num_batches = (total_rows + batch_size - 1) // batch_size
num_batches == (Len(raw_data) + batch_size - 1) \div batch_size

\* range(batch_start, batch_end) of batch k, with batch_start = k *
\* batch_size + 1 and batch_end = min(batch_start + batch_size,
\* len(raw_data)), the header being raw_data[0]
BatchIndices(k) ==
    LET batch_start == k * batch_size + 1
        batch_end   == IF batch_start + batch_size < Len(raw_data) + 1
                       THEN batch_start + batch_size
                       ELSE Len(raw_data) + 1
    IN  [i \in 1..(batch_end - batch_start) |-> batch_start + i - 1]

\* batch_with_ids of batch k
BatchRows(k) ==
    [i \in 1..Len(BatchIndices(k)) |->
        ParsedRow("jan", raw_data, BatchIndices(k)[i])]

\* sum(1 for row in all_data if row['status'] == st)
StatusCount(rows, st) ==
    Cardinality({i \in 1..Len(rows) : rows[i].status = st})

InitIngest ==
    /\ \/ original = [p \in Periods |-> NoTable]
       \/ original = [p \in Periods |->
                         IF p = "jan"
                         THEN Table(ProcessedTable(p, PreviousSheet))
                         ELSE NoTable]
    /\ analytics = [p \in Periods |-> NoTable]
    /\ duplicates = [p \in Periods |-> [pair \in Pairs |-> NoTable]]
    /\ charts = [p \in Periods |-> [c \in Charts |-> NoTable]]
    /\ common_names = [p \in Periods |-> NoTable]
    /\ comparison_common_names = NoTable
    /\ comparison_unique_jan = NoTable
    /\ comparison_unique_apr = NoTable
    /\ comparison_summary = NoTable
    /\ an_pc = [p \in Periods |-> 0]
    /\ cmp_pc = 0
    /\ cmp_response = "none"
    /\ RunsIdle
    /\ CleaningIdle
    /\ FetchingIdle
    /\ IngestionIdle

\* The call starts: get_sheet_data has returned the header and at least
\* one data row
IngestStart ==
    /\ ingest_pc = "idle"
    /\ \E sheet \in SheetsOver(RawRowsIngest, MaxRowsIngest) :
          raw_data' = sheet
    /\ \E size \in 1..MaxBatchSize : batch_size' = size
    /\ ingest_pc' = "clear"
    /\ UNCHANGED <<batch_num, total_included, total_excluded, ingest_result,
                   ingest_log, uncommitted, stored, requests, cleaning,
                   fetching>>

\* The call starts on a sheet without data rows:
\* raise ValueError("No data found in sheet")
IngestNoData ==
    /\ ingest_pc = "idle"
    /\ \E size \in 1..MaxBatchSize : batch_size' = size
    /\ ingest_result' =
           [status |-> "raised", value |-> <<>>, error |-> "ValueError"]
    /\ ingest_pc' = "done"
    /\ UNCHANGED <<raw_data, batch_num, total_included, total_excluded,
                   ingest_log, uncommitted, stored, requests, cleaning,
                   fetching>>

\* create_original_table and clear_table: executed, not committed
IngestClear ==
    /\ ingest_pc = "clear"
    /\ uncommitted' = TRUE
    /\ ingest_pc' = "batch"
    /\ UNCHANGED <<raw_data, batch_size, batch_num, total_included,
                   total_excluded, ingest_result, ingest_log, stored,
                   requests, cleaning, fetching>>

\* One round of the batch loop: the batch is parsed, cleaned and appended;
\* append_data's commit makes the pending TRUNCATE and the batch visible.
IngestBatch ==
    /\ ingest_pc = "batch"
    /\ batch_num < num_batches
    /\ ~clean_dataset(BatchRows(batch_num)).raised
    /\ LET all_data == clean_dataset(BatchRows(batch_num)).rows
       IN  /\ original' = [original EXCEPT !["jan"] =
                  Table((IF uncommitted THEN {} ELSE original["jan"].rows)
                        \cup {all_data[i] : i \in 1..Len(all_data)})]
           /\ total_included' =
                  total_included + StatusCount(all_data, "included")
           /\ total_excluded' =
                  total_excluded + StatusCount(all_data, "excluded")
    /\ uncommitted' = FALSE
    /\ ingest_log' = Append(ingest_log, BatchIndices(batch_num))
    /\ batch_num' = batch_num + 1
    /\ UNCHANGED <<raw_data, batch_size, ingest_pc, ingest_result,
                   analytics, duplicates, charts, common_names,
                   comparison_common_names, comparison_unique_jan,
                   comparison_unique_apr, comparison_summary,
                   requests, cleaning, fetching>>

\* A round whose clean_dataset raises: the exception leaves the function,
\* the connection's transaction stays as it is.
IngestCleanRaises ==
    /\ ingest_pc = "batch"
    /\ batch_num < num_batches
    /\ clean_dataset(BatchRows(batch_num)).raised
    /\ ingest_result' =
           [status |-> "raised", value |-> <<>>, error |-> "OverflowError"]
    /\ ingest_pc' = "done"
    /\ UNCHANGED <<raw_data, batch_size, batch_num, total_included,
                   total_excluded, ingest_log, uncommitted, stored,
                   requests, cleaning, fetching>>

\* A round whose COPY fails: append_data rolls the open transaction back
\* and raises.
IngestAppendFails ==
    /\ ingest_pc = "batch"
    /\ batch_num < num_batches
    /\ ~clean_dataset(BatchRows(batch_num)).raised
    /\ uncommitted' = FALSE
    /\ ingest_result' =
           [status |-> "raised", value |-> <<>>, error |-> "DatabaseError"]
    /\ ingest_pc' = "done"
    /\ UNCHANGED <<raw_data, batch_size, batch_num, total_included,
                   total_excluded, ingest_log, stored, requests, cleaning,
                   fetching>>

\* The loop is over: return total_rows, total_included, total_excluded
IngestReturns ==
    /\ ingest_pc = "batch"
    /\ batch_num = num_batches
    /\ ingest_result' =
           [status |-> "returned",
            value |-> <<Len(raw_data), total_included, total_excluded>>,
            error |-> "none"]
    /\ ingest_pc' = "done"
    /\ UNCHANGED <<raw_data, batch_size, batch_num, total_included,
                   total_excluded, ingest_log, uncommitted, stored,
                   requests, cleaning, fetching>>

NextIngest ==
    \/ IngestStart
    \/ IngestNoData
    \/ IngestClear
    \/ IngestBatch
    \/ IngestCleanRaises
    \/ IngestAppendFails
    \/ IngestReturns

SpecIngest == InitIngest /\ [][NextIngest]_vars

(***************************************************************************)
(* Acquisition on its own: one call of get_sheet_data.  Whether an attempt *)
(* succeeds, with which values, or fails, with which exception, is the     *)
(* Sheets service's choice.                                                *)
(***************************************************************************)
max_retries == 3

\* Exceptions an attempt can end with
FetchErrors == {"HttpError", "TimeoutError"}

\* result.get("values", []): no rows, or the rows of a sheet
FetchedValues == {<<>>} \cup SheetsOver(RawRowsThree, 2)

\* A slip the loop could make: one more round.
RetryOnceMore(a) == a < max_retries

\* if attempt < max_retries - 1
RetryAllowed(a) == a < max_retries - 1

InitFetch ==
    /\ fetch_pc = "call"
    /\ attempt = 0
    /\ fetch_log = <<>>
    /\ fetch_result = NoResult
    /\ CleaningIdle
    /\ IngestionIdle
    /\ original = [p \in Periods |-> NoTable]
    /\ analytics = [p \in Periods |-> NoTable]
    /\ duplicates = [p \in Periods |-> [pair \in Pairs |-> NoTable]]
    /\ charts = [p \in Periods |-> [c \in Charts |-> NoTable]]
    /\ common_names = [p \in Periods |-> NoTable]
    /\ comparison_common_names = NoTable
    /\ comparison_unique_jan = NoTable
    /\ comparison_unique_apr = NoTable
    /\ comparison_summary = NoTable
    /\ an_pc = [p \in Periods |-> 0]
    /\ cmp_pc = 0
    /\ cmp_response = "none"
    /\ RunsIdle

\* The attempt succeeds: return result.get("values", [])
FetchReturns ==
    /\ fetch_pc = "call"
    /\ \E v \in FetchedValues :
          /\ fetch_log' = Append(fetch_log,
                 [ok |-> TRUE, value |-> v, error |-> "none"])
          /\ fetch_result' =
                 [status |-> "returned", value |-> v, error |-> "none"]
    /\ fetch_pc' = "done"
    /\ UNCHANGED <<attempt, stored, requests, cleaning, ingestion>>

\* The attempt raises and another one is left: warning, then time.sleep(1)
FetchFailsRetry ==
    /\ fetch_pc = "call"
    /\ RetryAllowed(attempt)
    /\ \E e \in FetchErrors :
          fetch_log' = Append(fetch_log,
              [ok |-> FALSE, value |-> <<>>, error |-> e])
    /\ fetch_pc' = "sleep"
    /\ UNCHANGED <<attempt, fetch_result, stored, requests, cleaning,
                   ingestion>>

\* time.sleep(1) is over: the next round of the loop
FetchSleepEnds ==
    /\ fetch_pc = "sleep"
    /\ attempt' = attempt + 1
    /\ fetch_pc' = "call"
    /\ UNCHANGED <<fetch_log, fetch_result, stored, requests, cleaning,
                   ingestion>>

\* The last attempt raises: the exception is raised again
FetchFailsLast ==
    /\ fetch_pc = "call"
    /\ ~RetryAllowed(attempt)
    /\ \E e \in FetchErrors :
          /\ fetch_log' = Append(fetch_log,
                 [ok |-> FALSE, value |-> <<>>, error |-> e])
          /\ fetch_result' =
                 [status |-> "raised", value |-> <<>>, error |-> e]
    /\ fetch_pc' = "done"
    /\ UNCHANGED <<attempt, stored, requests, cleaning, ingestion>>

NextFetch ==
    \/ FetchReturns
    \/ FetchFailsRetry
    \/ FetchSleepEnds
    \/ FetchFailsLast

\* A request to the Sheets service is answered or fails, and a sleep ends.
SpecFetch == InitFetch /\ [][NextFetch]_vars /\ WF_vars(NextFetch)

(***************************************************************************)
(* Retrieval of the stored results                                         *)
(***************************************************************************)
\* get_common_names_data: SELECT ... FROM common_names ORDER BY rank (the
\* ranks of a stored table are 1..n)
get_common_names_data(t) ==
    [i \in 1..Cardinality(t.rows) |-> CHOOSE c \in t.rows : c.rank = i]

\* GET /analytics/<sheet_key>/common_names: the query raises when the table
\* does not exist (500); `if not data` answers 404; otherwise the rows.
get_common_names(t) ==
    IF ~t.exists THEN [status |-> 500, names |-> <<>>]
    ELSE IF get_common_names_data(t) = <<>>
         THEN [status |-> 404, names |-> <<>>]
         ELSE [status |-> 200, names |-> get_common_names_data(t)]

\* GET /analytics/<sheet_key>/common_names/download/<format>: the same
\* three answers, the exporter being called over a non-empty list only.
download_common_names(t) ==
    IF ~t.exists THEN [status |-> 500, names |-> <<>>]
    ELSE IF get_common_names_data(t) = <<>>
         THEN [status |-> 404, names |-> <<>>]
         ELSE [status |-> 200, names |-> get_common_names_data(t)]

\* get_duplicate_groups' default page size
DefaultPerPage == 50

\* get_duplicate_groups: SELECT * FROM <duplicates table> LIMIT per_page
\* OFFSET (page - 1) * per_page.  The query has no ORDER BY, so the rows
\* come in an order the database chooses: every page of every order.
get_duplicate_groups(t, page, per_page) ==
    {SubSeq(o, (page - 1) * per_page + 1,
            IF page * per_page < Len(o) THEN page * per_page ELSE Len(o)) :
        o \in Orderings(t.rows)}

(***************************************************************************)
(* Reference notions the properties are stated with, read off the stored   *)
(* original tables independently of the derived ones.                      *)
(***************************************************************************)
\* The records a name statistic is about: included, with a non-empty name.
EligibleRows(p) ==
    {r \in original[p].rows : r.status = "included" /\ r.firstname # <<>>}

EligibleNames(p) == {r.firstname : r \in EligibleRows(p)}

CountOf(p, n) == Cardinality({r \in EligibleRows(p) : r.firstname = n})

\* m ranks strictly before n: higher count, or equal count and lesser name
Before(p, m, n) ==
    \/ CountOf(p, m) > CountOf(p, n)
    \/ CountOf(p, m) = CountOf(p, n) /\ StrLess(m, n)

\* The running count up to and including n in rank order
CumulativeOf(p, n) ==
    SumOver({m \in EligibleNames(p) : m = n \/ Before(p, m, n)},
            [m \in EligibleNames(p) |-> CountOf(p, m)])

(***************************************************************************)
(* C1                                                                      *)
(***************************************************************************)
\* C1: the coverage set stored in a period's common-names table is the
\* maximal prefix of the frequency table in rank order whose cumulative
\* fraction is at most 0.80: every stored entry has cumulative count at most
\* 80% of the total, every name ranking before a stored one is stored, and
\* the first name left out (if any) would push the fraction above 0.80.
C1_CoverageIsMaximalPrefix ==
    \A p \in Periods : common_names[p].exists =>
        LET cs      == common_names[p].rows
            inNames == {c.firstname : c \in cs}
            total   == Cardinality(EligibleRows(p))
            out     == EligibleNames(p) \ inNames
        IN  /\ inNames \subseteq EligibleNames(p)
            /\ Cardinality(cs) = Cardinality(inNames)
            /\ \A c \in cs :
                  /\ c.frequency = CountOf(p, c.firstname)
                  /\ c.cumulative_count = CumulativeOf(p, c.firstname)
                  /\ c.total_records = total
                  /\ 5 * c.cumulative_count <= 4 * total
                  /\ \A m \in EligibleNames(p) :
                        Before(p, m, c.firstname) => m \in inNames
            /\ \A n \in out :
                  (\A m \in out : m = n \/ Before(p, n, m))
                      => 5 * CumulativeOf(p, n) > 4 * total

\* A coverage set that is a proper, non-empty prefix whose last entry sits
\* at exactly 80% of the total.
C1_Witness ==
    /\ common_names["jan"].exists
    /\ \E c \in common_names["jan"].rows :
          5 * c.cumulative_count = 4 * c.total_records
    /\ EligibleNames("jan") \ {c.firstname : c \in common_names["jan"].rows}
          # {}

(***************************************************************************)
(* C2                                                                      *)
(***************************************************************************)
\* C2: when the top-ranked name alone accounts for more than 80% of the
\* eligible records, the stored coverage set is non-empty and holds exactly
\* that one entry, at rank 1.
C2_DominantNameIsKept ==
    \A p \in Periods : common_names[p].exists =>
        \A n \in EligibleNames(p) :
            5 * CountOf(p, n) > 4 * Cardinality(EligibleRows(p)) =>
                /\ Cardinality(common_names[p].rows) = 1
                /\ \A c \in common_names[p].rows :
                      c.firstname = n /\ c.rank = 1

(***************************************************************************)
(* C3                                                                      *)
(***************************************************************************)
\* C3: frequency conservation: the per-name counts of the frequency table
\* add up to the number of included records with a non-empty name, and
\* that number is the total_records denominator of every frequency entry
\* and of every stored coverage-set row.
C3_FrequencyConservation ==
    \A p \in Periods : original[p].exists =>
        LET nf    == name_frequencies(original[p].rows)
            total == Cardinality({r \in original[p].rows :
                        r.status = "included" /\ r.firstname # <<>>})
        IN  /\ SumOver(nf, [e \in nf |-> e.frequency]) = total
            /\ \A e \in nf : e.total_records = total
            /\ common_names[p].exists =>
                  \A c \in common_names[p].rows : c.total_records = total

\* A period with several names counted, a stored coverage set, and an
\* excluded record that carries a name.
C3_Witness ==
    /\ common_names["jan"].exists
    /\ common_names["jan"].rows # {}
    /\ Cardinality(name_frequencies(original["jan"].rows)) >= 2
    /\ \E r \in original["jan"].rows :
          r.status = "excluded" /\ r.firstname # <<>>

(***************************************************************************)
(* C4                                                                      *)
(***************************************************************************)
\* C4: deterministic ranking: in the ranked common-names table and in the
\* top_80_percent_names list of the analytics summary the coverage-set
\* names appear by count descending, ties broken by ascending name, and the
\* table's ranks are the consecutive integers 1..k in that order.
C4_DeterministicRanking ==
    \A p \in Periods : (common_names[p].exists /\ analytics[p].exists) =>
        LET cs == common_names[p].rows
        IN  /\ {c.rank : c \in cs} = 1..Cardinality(cs)
            /\ \A c, d \in cs :
                  c.rank < d.rank => Before(p, c.firstname, d.firstname)
            /\ \A a \in analytics[p].rows :
                  a.top_80_percent_names # NULL =>
                      LET names == a.top_80_percent_names[1]
                      IN  \A i, j \in 1..Len(names) :
                              i < j => Before(p, names[i], names[j])

(***************************************************************************)
(* C5                                                                      *)
(***************************************************************************)
\* The included records with both key attributes of a pair present
KeyedRows(p, pair) ==
    {r \in original[p].rows :
        /\ r.status = "included"
        /\ r[PairCols(pair).a] # <<>>
        /\ r[PairCols(pair).b] # <<>>}

\* The row ids a stored duplicate group lists
MembersOf(g) == {g.row_ids[i] : i \in 1..Len(g.row_ids)}

\* C5: duplicate-group validity, for each of the six pairs: every stored
\* group has more than one member, its recorded size is the number of its
\* members, every member is an included record with both key attributes
\* present and equal to the group's key values, and every included record
\* with both attributes present whose key some other such record shares is
\* a member of exactly one group of that pair.
C5_DuplicateGroupsValid ==
    \A p \in Periods : \A pair \in Pairs : duplicates[p][pair].exists =>
        LET groups == duplicates[p][pair].rows
            c      == PairCols(pair)
        IN  /\ \A g \in groups :
                  /\ g.duplicate_count > 1
                  /\ g.duplicate_count = Len(g.row_ids)
                  /\ g.duplicate_count = Cardinality(MembersOf(g))
                  /\ \A id \in MembersOf(g) :
                        \E r \in KeyedRows(p, pair) :
                            /\ r.row_id = id
                            /\ r[c.a] = g.key_a
                            /\ r[c.b] = g.key_b
            /\ \A r \in KeyedRows(p, pair) :
                  (\E q \in KeyedRows(p, pair) :
                       /\ q.row_id # r.row_id
                       /\ q[c.a] = r[c.a]
                       /\ q[c.b] = r[c.b])
                  => Cardinality({g \in groups : r.row_id \in MembersOf(g)})
                         = 1

\* A pair with a stored group next to an included record that shares its
\* key with no other record and is in no group.
C5_Witness ==
    \E pair \in Pairs :
        /\ duplicates["jan"][pair].exists
        /\ duplicates["jan"][pair].rows # {}
        /\ \E r \in KeyedRows("jan", pair) :
              \A g \in duplicates["jan"][pair].rows :
                  r.row_id \notin MembersOf(g)

(***************************************************************************)
(* C6                                                                      *)
(***************************************************************************)
\* The members of all stored groups of a period, over the six pairs
AllGroupMembers(p) ==
    UNION {UNION {MembersOf(g) : g \in duplicates[p][pair].rows} :
              pair \in Pairs}

\* C6: total_duplicate_records of the analytics summary is the number of
\* distinct records in the union of the members of all groups of the six
\* pairs; it is at most the sum of the six per-pair record counts and at
\* most the number of included records.
C6_TotalDuplicateRecordsIsUnion ==
    \A p \in Periods :
        (analytics[p].exists /\ \A pair \in Pairs : duplicates[p][pair].exists)
        => \A a \in analytics[p].rows :
              /\ a.total_duplicate_records = Cardinality(AllGroupMembers(p))
              /\ a.total_duplicate_records <=
                     SumOver(Pairs, [pair \in Pairs |-> a.duplicate_count[pair]])
              /\ a.total_duplicate_records <=
                     Cardinality({r \in original[p].rows :
                                     r.status = "included"})

\* A summary in which some record is a duplicate under more than one pair,
\* so that the total is positive and below the sum of the per-pair counts.
C6_Witness ==
    /\ analytics["jan"].exists
    /\ \E a \in analytics["jan"].rows :
          /\ a.total_duplicate_records > 0
          /\ a.total_duplicate_records <
                 SumOver(Pairs, [pair \in Pairs |-> a.duplicate_count[pair]])
          /\ a.total_duplicate_records < a.total_included_records

(***************************************************************************)
(* C7                                                                      *)
(***************************************************************************)
\* A period's universe of normalized names, and a normalized name's count
NormalizedUniverse(p) == {Normalized(r.firstname) : r \in EligibleRows(p)}

NormalizedCountOf(p, n) ==
    Cardinality({r \in EligibleRows(p) : Normalized(r.firstname) = n})

\* C7: comparison partition: in the summary common_names_count plus
\* unique_jan_names_count is jan_unique_names, and likewise for apr; the
\* names of the common table and the normalized names of a period's unique
\* table are disjoint and together are that period's normalized universe.
C7_ComparisonPartition ==
    (/\ comparison_summary.exists
     /\ comparison_common_names.exists
     /\ comparison_unique_jan.exists
     /\ comparison_unique_apr.exists)
    => LET common == {r.firstname : r \in comparison_common_names.rows}
           ujan   == {r.firstname_normalized :
                         r \in comparison_unique_jan.rows}
           uapr   == {r.firstname_normalized :
                         r \in comparison_unique_apr.rows}
       IN  /\ common \cap ujan = {}
           /\ common \cap uapr = {}
           /\ common \cup ujan = NormalizedUniverse("jan")
           /\ common \cup uapr = NormalizedUniverse("apr")
           /\ \A s \in comparison_summary.rows :
                 /\ s.common_names_count + s.unique_jan_names_count
                        = s.jan_unique_names
                 /\ s.common_names_count + s.unique_apr_names_count
                        = s.apr_unique_names
                 /\ s.common_names_count = Cardinality(common)
                 /\ s.unique_jan_names_count = Cardinality(ujan)
                 /\ s.unique_apr_names_count = Cardinality(uapr)

\* A comparison with a common name and a name unique to jan, where jan
\* spells one normalized name in two ways.
C7_Witness ==
    /\ comparison_summary.exists
    /\ \E s \in comparison_summary.rows :
          /\ s.common_names_count > 0
          /\ s.unique_jan_names_count > 0
    /\ Cardinality(EligibleNames("jan"))
           > Cardinality(NormalizedUniverse("jan"))

(***************************************************************************)
(* C8                                                                      *)
(***************************************************************************)
\* C8: the common-names table of the comparison holds exactly one row per
\* normalized name occurring in both periods: no such name is missing, none
\* is in more than one row, the number of rows is the summary's
\* common_names_count, and each row carries the name's normalized count in
\* each period and their sum.
C8_OneEntryPerCommonName ==
    (comparison_common_names.exists /\ comparison_summary.exists)
    => LET rows   == comparison_common_names.rows
           common == NormalizedUniverse("jan") \cap NormalizedUniverse("apr")
       IN  /\ {r.firstname : r \in rows} = common
           /\ Cardinality(rows) = Cardinality(common)
           /\ \A s \in comparison_summary.rows :
                 Cardinality(rows) = s.common_names_count
           /\ \A r \in rows :
                 /\ r.jan_frequency = NormalizedCountOf("jan", r.firstname)
                 /\ r.apr_frequency = NormalizedCountOf("apr", r.firstname)
                 /\ r.total_frequency = r.jan_frequency + r.apr_frequency

(***************************************************************************)
(* C9                                                                      *)
(***************************************************************************)
\* The records of period x whose normalized name does not occur in period y
RecordsUniqueTo(x, y) ==
    {r \in EligibleRows(x) :
        Normalized(r.firstname) \notin NormalizedUniverse(y)}

\* C9: the unique-to-jan table holds exactly one row per included jan
\* record whose normalized name has no occurrence in apr: no such record is
\* missing, none is there twice, and no other record is there; likewise for
\* the unique-to-apr table.  (The rows are stored as a set; the ascending
\* original_row_number order is the retrieval's ORDER BY.)
C9_OneRowPerUniqueRecord ==
    (comparison_unique_jan.exists /\ comparison_unique_apr.exists)
    => /\ {r.row_id : r \in comparison_unique_jan.rows}
              = {r.row_id : r \in RecordsUniqueTo("jan", "apr")}
       /\ Cardinality(comparison_unique_jan.rows)
              = Cardinality(RecordsUniqueTo("jan", "apr"))
       /\ {r.row_id : r \in comparison_unique_apr.rows}
              = {r.row_id : r \in RecordsUniqueTo("apr", "jan")}
       /\ Cardinality(comparison_unique_apr.rows)
              = Cardinality(RecordsUniqueTo("apr", "jan"))

(***************************************************************************)
(* C10                                                                     *)
(***************************************************************************)
\* m ranks strictly before n among a period's normalized names
NormalizedBefore(p, m, n) ==
    \/ NormalizedCountOf(p, m) > NormalizedCountOf(p, n)
    \/ NormalizedCountOf(p, m) = NormalizedCountOf(p, n) /\ StrLess(m, n)

\* The coverage set of a period computed over normalized names: the names
\* whose running count in rank order is at most 80% of the total.
NormalizedCoverage(p) ==
    {n \in NormalizedUniverse(p) :
        5 * SumOver({m \in NormalizedUniverse(p) :
                        m = n \/ NormalizedBefore(p, m, n)},
                    [m \in NormalizedUniverse(p) |->
                        NormalizedCountOf(p, m)])
            <= 4 * Cardinality(EligibleRows(p))}

\* The rank of a name of the normalized coverage set
NormalizedRank(p, n) ==
    Cardinality({m \in NormalizedCoverage(p) :
                    m = n \/ NormalizedBefore(p, m, n)})

\* The flag and rank a comparison row must carry for name n in period p
Top80Agrees(p, n, flag, rank) ==
    /\ flag <=> n \in NormalizedCoverage(p)
    /\ rank = NULL <=> ~flag
    /\ flag => rank = Some(NormalizedRank(p, n))

\* C10: the top-80 flags and ranks of the comparison rows come from each
\* period's coverage set computed over normalized names: a flag is true
\* exactly when the row's normalized name is in that set, the rank is the
\* name's rank in it, and the rank is null exactly when the flag is false.
C10_Top80FromNormalizedCoverage ==
    (/\ comparison_common_names.exists
     /\ comparison_unique_jan.exists
     /\ comparison_unique_apr.exists)
    => /\ \A r \in comparison_common_names.rows :
             /\ Top80Agrees("jan", r.firstname, r.in_jan_top80, r.jan_rank)
             /\ Top80Agrees("apr", r.firstname, r.in_apr_top80, r.apr_rank)
       /\ \A r \in comparison_unique_jan.rows :
             Top80Agrees("jan", r.firstname_normalized, r.in_top80, r.rank)
       /\ \A r \in comparison_unique_apr.rows :
             Top80Agrees("apr", r.firstname_normalized, r.in_top80, r.rank)

(***************************************************************************)
(* C14                                                                     *)
(***************************************************************************)
\* What a stored record says, its identifier aside
RecordContent(r) ==
    <<r.original_row_number, r.firstname, r.birthday, r.birthmonth,
      r.birthyear, r.status>>

\* The two periods hold the same records
IdenticalPeriods ==
    /\ \A p \in Periods : original[p].exists
    /\ {RecordContent(r) : r \in original["jan"].rows}
           = {RecordContent(r) : r \in original["apr"].rows}

\* C14: self-comparison: when the two periods hold identical records, the
\* unique-to-jan and unique-to-apr tables are empty and the summary has
\* common_names_count = jan_unique_names = apr_unique_names.
C14_SelfComparison ==
    (/\ IdenticalPeriods
     /\ comparison_unique_jan.exists
     /\ comparison_unique_apr.exists
     /\ comparison_summary.exists)
    => /\ comparison_unique_jan.rows = {}
       /\ comparison_unique_apr.rows = {}
       /\ \A s \in comparison_summary.rows :
             /\ s.common_names_count = s.jan_unique_names
             /\ s.common_names_count = s.apr_unique_names
             /\ s.unique_jan_names_count = 0
             /\ s.unique_apr_names_count = 0

\* A comparison of identical periods that spell one name in two ways.
C14_Witness ==
    /\ IdenticalPeriods
    /\ comparison_summary.exists
    /\ comparison_unique_jan.exists
    /\ \E s \in comparison_summary.rows : s.common_names_count > 0
    /\ Cardinality(EligibleNames("jan"))
           > Cardinality(NormalizedUniverse("jan"))

(***************************************************************************)
(* C15                                                                     *)
(***************************************************************************)
\* The percentage fields of a summary row with their numerators and
\* denominators
PercentageFields(s) ==
    {<<s.common_names_pct_of_jan, s.common_names_count, s.jan_unique_names>>,
     <<s.common_names_pct_of_apr, s.common_names_count, s.apr_unique_names>>,
     <<s.jan_top80_in_apr_pct, s.jan_top80_in_apr_count, s.jan_top80_count>>,
     <<s.apr_top80_in_jan_pct, s.apr_top80_in_jan_count, s.apr_top80_count>>}

\* C15 (as stated): each percentage field of the summary equals numerator /
\* denominator * 100 when the denominator is non-zero and is null when it
\* is zero.  Percentages are held in hundredths.
C15_PercentagesExact ==
    comparison_summary.exists =>
        \A s \in comparison_summary.rows : \A f \in PercentageFields(s) :
            /\ f[3] = 0 => f[1] = NULL
            /\ f[3] # 0 => (f[1] # NULL /\ f[1][1] * f[3] = f[2] * 100 * 100)

\* C15 (amended): each percentage field of the summary is numerator /
\* denominator * 100 rounded to two decimal places, halves upwards, when
\* the denominator is non-zero, and null when it is zero.
C15_PercentagesRounded ==
    comparison_summary.exists =>
        \A s \in comparison_summary.rows : \A f \in PercentageFields(s) :
            /\ f[3] = 0 => f[1] = NULL
            /\ f[3] # 0 =>
                  /\ f[1] # NULL
                  /\ 2 * f[1][1] * f[3] <= 2 * f[2] * 100 * 100 + f[3]
                  /\ 2 * f[1][1] * f[3] > 2 * f[2] * 100 * 100 - f[3]

\* A summary with a null percentage (April has no coverage set) next to
\* one that two decimals cannot hold (one name of three).
C15_Witness ==
    /\ comparison_summary.exists
    /\ \E s \in comparison_summary.rows :
          /\ s.apr_top80_count = 0
          /\ s.apr_top80_in_jan_pct = NULL
          /\ s.jan_unique_names = 3
          /\ s.common_names_count = 1
          /\ s.common_names_pct_of_jan = Some(3333)

(***************************************************************************)
(* C16                                                                     *)
(***************************************************************************)
\* The period's table exists and holds no eligible record
NoEligibleRecords(p) == original[p].exists /\ EligibleRows(p) = {}

\* C16: empty input is not an error: for a period without eligible records
\* the frequency table and the stored coverage set are empty, the six
\* duplicates tables are empty and total_duplicate_records is 0; the
\* comparison of two such periods stores empty common and unique tables
\* and a summary whose counts are all 0 and whose percentages are all null.
C16_EmptyInput ==
    /\ \A p \in Periods : NoEligibleRecords(p) =>
          /\ name_frequencies(original[p].rows) = {}
          /\ common_names[p].exists => common_names[p].rows = {}
          /\ \A pair \in Pairs :
                duplicates[p][pair].exists => duplicates[p][pair].rows = {}
          /\ analytics[p].exists =>
                \A a \in analytics[p].rows :
                    /\ a.total_duplicate_records = 0
                    /\ a.top_80_percent_name_count = 0
                    /\ \A pair \in Pairs : a.duplicate_count[pair] = 0
    /\ (\A p \in Periods : NoEligibleRecords(p)) =>
          /\ comparison_common_names.exists
                => comparison_common_names.rows = {}
          /\ comparison_unique_jan.exists => comparison_unique_jan.rows = {}
          /\ comparison_unique_apr.exists => comparison_unique_apr.rows = {}
          /\ comparison_summary.exists =>
                /\ Cardinality(comparison_summary.rows) = 1
                /\ \A s \in comparison_summary.rows :
                      /\ s.jan_total_records = 0
                      /\ s.jan_unique_names = 0
                      /\ s.jan_top80_count = 0
                      /\ s.apr_total_records = 0
                      /\ s.apr_unique_names = 0
                      /\ s.apr_top80_count = 0
                      /\ s.common_names_count = 0
                      /\ s.unique_jan_names_count = 0
                      /\ s.unique_apr_names_count = 0
                      /\ s.jan_top80_in_apr_count = 0
                      /\ s.apr_top80_in_jan_count = 0
                      /\ s.both_top80_count = 0
                      /\ \A f \in PercentageFields(s) : f[1] = NULL

\* Two periods without eligible records, analysed and compared.
C16_Witness ==
    /\ \A p \in Periods :
          /\ NoEligibleRecords(p)
          /\ analytics[p].exists
          /\ \A pair \in Pairs : duplicates[p][pair].exists
          /\ common_names[p].exists
    /\ comparison_summary.exists
    /\ comparison_common_names.exists

(***************************************************************************)
(* C20                                                                     *)
(***************************************************************************)
\* The exact names of a period that normalize to n
SpellingsOf(p, n) == {m \in EligibleNames(p) : Normalized(m) = n}

\* The sum of the exact counts of the spellings of n
SumOfExactCounts(p, n) ==
    SumOver(SpellingsOf(p, n), [m \in SpellingsOf(p, n) |-> CountOf(p, m)])

\* C20: the single-period frequency table is keyed by the stored name as
\* it is, case-sensitive and untrimmed, one entry per spelling with the
\* number of records spelled so; the frequencies of the comparison are
\* keyed by the trimmed, lower-cased name, and a normalized count is the
\* sum of the exact counts of the names normalizing to it.
C20_ExactAndNormalizedKeys ==
    /\ \A p \in Periods : original[p].exists =>
          LET nf == name_frequencies(original[p].rows)
          IN  /\ {e.firstname : e \in nf} = EligibleNames(p)
              /\ Cardinality(nf) = Cardinality(EligibleNames(p))
              /\ \A e \in nf : e.frequency = CountOf(p, e.firstname)
              /\ common_names[p].exists =>
                    \A c \in common_names[p].rows :
                        c.frequency = CountOf(p, c.firstname)
    /\ comparison_common_names.exists =>
          \A r \in comparison_common_names.rows :
              /\ r.firstname = Normalized(r.firstname)
              /\ r.jan_frequency = SumOfExactCounts("jan", r.firstname)
              /\ r.apr_frequency = SumOfExactCounts("apr", r.firstname)

\* A comparison row whose January count adds up two spellings, both of
\* them entries of January's stored table.
C20_Witness ==
    /\ comparison_common_names.exists
    /\ \E r \in comparison_common_names.rows :
          /\ Cardinality(SpellingsOf("jan", r.firstname)) >= 2
          /\ r.jan_frequency >= 2
    /\ Cardinality(common_names["jan"].rows) >= 2

(***************************************************************************)
(* C17                                                                     *)
(***************************************************************************)
\* C17: requesting or downloading the coverage set of a period whose
\* stored coverage set is empty returns a successful, empty result, not an
\* error response.
C17_EmptyCoverageIsSuccess ==
    \A p \in Periods :
        (common_names[p].exists /\ common_names[p].rows = {}) =>
            /\ get_common_names(common_names[p]).status = 200
            /\ get_common_names(common_names[p]).names = <<>>
            /\ download_common_names(common_names[p]).status = 200

(***************************************************************************)
(* C19                                                                     *)
(***************************************************************************)
\* Group g is at or before group h: larger size first, then the key values
\* ascending
GroupOrder(g, h) ==
    \/ g.duplicate_count > h.duplicate_count
    \/ /\ g.duplicate_count = h.duplicate_count
       /\ \/ StrLess(g.key_a, h.key_a)
          \/ g.key_a = h.key_a /\ StrLeq(g.key_b, h.key_b)

\* C19: each of the six duplicate-group lists, as returned page by page by
\* get_duplicate_groups, is ordered by group size descending and then by
\* the pair's key values ascending, and the members of every group are
\* listed in ascending original_row_number order.
C19_DuplicateGroupsOrdered ==
    \A p \in Periods : \A pair \in Pairs : duplicates[p][pair].exists =>
        /\ \A g \in duplicates[p][pair].rows :
              \A i, j \in 1..Len(g.original_row_numbers) :
                  i < j => g.original_row_numbers[i]
                               < g.original_row_numbers[j]
        /\ \A result \in get_duplicate_groups(duplicates[p][pair], 1,
                                              DefaultPerPage) :
              \A i, j \in 1..Len(result) :
                  i < j => GroupOrder(result[i], result[j])

(***************************************************************************)
(* C11                                                                     *)
(***************************************************************************)
\* The comparison request in progress is in _verify_tables_exist
Verifying == NextComparisonStatement.op = "verify"

\* The source table the next round of the verification is about
CheckedTable ==
    IF NextComparisonStatement.src = "original"
    THEN original[NextComparisonStatement.period]
    ELSE common_names[NextComparisonStatement.period]

ComparisonOutputs ==
    <<comparison_common_names, comparison_unique_jan,
      comparison_unique_apr, comparison_summary>>

\* C11: while create_comparison_analytics is verifying its four source
\* tables no comparison output is dropped, created or changed, and a round
\* that finds its table missing never lets the call go on: the call ends
\* there with the "Required table not found" error.  A comparison output is
\* therefore only touched after each of the four tables was found.
C11_MissingPrerequisite ==
    [][Verifying =>
          /\ UNCHANGED ComparisonOutputs
          /\ ~CheckedTable.exists =>
                \/ cmp_pc' = cmp_pc /\ cmp_response' = cmp_response
                \/ cmp_pc' = 0 /\ cmp_response' = "not_found"]_vars

\* A comparison was refused over a missing common names table while the
\* outputs of the comparison before it are all still there.
C11_Witness ==
    /\ cmp_response = "not_found"
    /\ cmp_pc = 0
    /\ \E p \in Periods : ~common_names[p].exists
    /\ comparison_common_names.exists
    /\ comparison_unique_jan.exists
    /\ comparison_unique_apr.exists
    /\ comparison_summary.exists

(***************************************************************************)
(* C12                                                                     *)
(***************************************************************************)
\* The ten tables create_analytics stores for period p
AnalyticsOutputs(p) ==
    {analytics[p], common_names[p]}
        \cup {duplicates[p][pair] : pair \in Pairs}
        \cup {charts[p][c] : c \in Charts}

\* All of the tables are there or none is
AllOrNone(tables) ==
    \/ \A t \in tables : t.exists
    \/ \A t \in tables : ~t.exists

\* C12: at every point of a comparison or analytics run, and after a run
\* that failed, the stored outputs are complete: the four comparison tables
\* are all there or all absent, and so are the ten tables of each period's
\* analytics.
C12_OutputsAtomic ==
    /\ AllOrNone({comparison_common_names, comparison_unique_jan,
                  comparison_unique_apr, comparison_summary})
    /\ \A p \in Periods : AllOrNone(AnalyticsOutputs(p))

(***************************************************************************)
(* C13                                                                     *)
(***************************************************************************)
\* C13: in every interleaving with create_analytics, each statement of the
\* comparison that selects from a period's stored top-80% names runs only
\* while that table exists, and no comparison fails after its verification
\* has passed.
C13_ComparisonIsBarrier ==
    /\ cmp_response # "error"
    /\ NextComparisonStatement.op \in {"read", "create"} =>
          \A p \in NextComparisonStatement.reads : common_names[p].exists

(***************************************************************************)
(* C21                                                                     *)
(***************************************************************************)
\* The original_row_numbers of the members of group g
MemberNumbers(g) ==
    {g.original_row_numbers[i] : i \in 1..Len(g.original_row_numbers)}

\* The period holds the four records of the duplicate-detection scenario
\* and its analytics have been created
ScenarioAnalysed(p) ==
    /\ original[p].exists
    /\ original[p].rows = ProcessedTable(p, DuplicateScenarioSheet)
    /\ analytics[p].exists
    /\ \A pair \in Pairs : duplicates[p][pair].exists

\* C21: name-keyed duplicate detection groups records whose names are equal
\* after normalization: over (ALICE,1,1,1990), (alice,2,1,1990),
\* (BOB,3,2,1991), (ALICE,4,1,1992) the (name, month) list holds one group
\* for (alice, 1), of size 3 with members 1, 2 and 4, the (name, year) list
\* holds a group for (alice, 1990) with members 1 and 2, and the count of
\* records in some duplicate group is 3.
C21_NormalizedNameGroups ==
    \A p \in Periods : ScenarioAnalysed(p) =>
        /\ \E g \in duplicates[p]["name_month"].rows :
              /\ Normalized(g.key_a) = salice
              /\ g.key_b = sMonth1
              /\ g.duplicate_count = 3
              /\ MemberNumbers(g) = {1, 2, 4}
              /\ \A h \in duplicates[p]["name_month"].rows :
                    (Normalized(h.key_a) = salice /\ h.key_b = sMonth1)
                        => h = g
        /\ \E g \in duplicates[p]["name_year"].rows :
              /\ Normalized(g.key_a) = salice
              /\ g.key_b = sYear1990
              /\ MemberNumbers(g) = {1, 2}
        /\ \A a \in analytics[p].rows : a.total_duplicate_records = 3

(***************************************************************************)
(* C27                                                                     *)
(***************************************************************************)
\* The names of a top_80_percent_names array
ListedNames(list) ==
    IF list = NULL THEN {} ELSE {list[1][i] : i \in 1..Len(list[1])}

\* C27: the analytics summary and the ranked common-names table of a period
\* agree on the coverage set: top_80_percent_name_count is the number of
\* rows of the table, top_80_percent_names lists the table's names, and
\* top_80_percent_record_count is the cumulative_count of the table's last
\* row, which is the sum of the table's frequencies (both are NULL, as SUM
\* over no rows is, when the table is empty).
C27_CoverageComputationsAgree ==
    \A p \in Periods : (analytics[p].exists /\ common_names[p].exists) =>
        \A a \in analytics[p].rows :
            LET cn == common_names[p].rows
            IN  /\ a.top_80_percent_name_count = Cardinality(cn)
                /\ ListedNames(a.top_80_percent_names)
                       = {r.firstname : r \in cn}
                /\ cn = {} => a.top_80_percent_record_count = NULL
                /\ cn # {} =>
                      /\ a.top_80_percent_record_count =
                             Some(SumOver(cn, [r \in cn |-> r.frequency]))
                      /\ \A r \in cn :
                            r.rank = Cardinality(cn) =>
                                a.top_80_percent_record_count
                                    = Some(r.cumulative_count)

\* A period analysed whose common-names table lists two names and leaves a
\* third one out
C27_Witness ==
    \E p \in Periods :
        /\ analytics[p].exists
        /\ common_names[p].exists
        /\ Cardinality(common_names[p].rows) = 2
        /\ Cardinality(EligibleNames(p)) = 3

(***************************************************************************)
(* C28                                                                     *)
(***************************************************************************)
\* C28: for each of the six key pairs the summary's per-pair duplicate
\* count equals the sum of the sizes of the groups of that pair's
\* duplicate-group table, the number of records that are in some group of
\* the pair.
C28_PairCountIsSumOfGroupSizes ==
    \A p \in Periods : analytics[p].exists =>
        \A pair \in Pairs : duplicates[p][pair].exists =>
            \A a \in analytics[p].rows :
                LET groups == duplicates[p][pair].rows
                IN  /\ a.duplicate_count[pair] =
                           SumOver(groups,
                                   [g \in groups |-> g.duplicate_count])
                    /\ a.duplicate_count[pair] =
                           Cardinality(UNION {MemberNumbers(g) : g \in groups})

\* A pair with two groups, of which one has three members
C28_Witness ==
    \E p \in Periods : \E pair \in Pairs :
        /\ analytics[p].exists
        /\ duplicates[p][pair].exists
        /\ Cardinality(duplicates[p][pair].rows) = 2
        /\ \E g \in duplicates[p][pair].rows : g.duplicate_count = 3

(***************************************************************************)
(* C29                                                                     *)
(***************************************************************************)
\* C29: the summary's unique_names is the number of distinct non-empty
\* names of the included records, which is the number of entries of the
\* full frequency table over the same records; the empty name is not one
\* of the names counted.
C29_UniqueNamesCountsNonEmptyNames ==
    \A p \in Periods : analytics[p].exists =>
        \A a \in analytics[p].rows :
            /\ a.unique_names =
                   Cardinality({r.firstname : r \in
                       {q \in original[p].rows : q.status = "included"}}
                           \ {sEmpty})
            /\ a.unique_names = Cardinality(EligibleNames(p))
            /\ a.unique_names =
                   Cardinality(name_frequencies(original[p].rows))

\* A period analysed whose sheet had a row without a name next to rows
\* with two different names
C29_Witness ==
    \E p \in Periods :
        /\ analytics[p].exists
        /\ \E r \in original[p].rows : r.firstname = sEmpty
        /\ \A a \in analytics[p].rows : a.unique_names = 2

(***************************************************************************)
(* C30                                                                     *)
(***************************************************************************)
\* The name has at least 3 characters after trimming, all of them ASCII
\* letters or whitespace
NameMeetsRules(name) ==
    /\ Len(Strip(name)) >= 3
    /\ \A i \in 1..Len(Strip(name)) :
          Strip(name)[i] \in (65..90) \cup (97..122) \cup Whitespace

\* The text is a number whose whole part lies in lo..hi
NumberWithin(text, lo, hi) ==
    /\ IsDecimal(Strip(text))
    /\ TruncatedValue(Strip(text)) >= lo
    /\ TruncatedValue(Strip(text)) <= hi

\* The checks a row fails
FailedChecks(row) ==
    {c \in {"name", "day", "month", "year"} :
        \/ c = "name" /\ ~NameMeetsRules(row.firstname)
        \/ c = "day" /\ ~NumberWithin(row.birthday, 1, 31)
        \/ c = "month" /\ ~NumberWithin(row.birthmonth, 1, 12)
        \/ c = "year" /\ ~(/\ IsDecimal(Strip(row.birthyear))
                           /\ TruncatedValue(Strip(row.birthyear)) >= 1940)}

\* C30: clean_dataset returns one output row per input row, in input order,
\* with row_id and original_row_number unchanged; a row is 'included', with
\* no exclusion reason, exactly when its name has at least 3 characters
\* after trimming and only ASCII letters and whitespace and its day, month
\* and year are numeric with day in 1..31, month in 1..12 and year >= 1940;
\* every other row is 'excluded' with a reason for each failed check.
C30_ValidationClassifiesEveryRow ==
    clean_out.called =>
        /\ ~clean_out.raised
        /\ Len(clean_out.rows) = Len(clean_in)
        /\ \A i \in 1..Len(clean_in) :
              /\ clean_out.rows[i].row_id = clean_in[i].row_id
              /\ clean_out.rows[i].original_row_number
                     = clean_in[i].original_row_number
              /\ clean_out.rows[i].status \in {"included", "excluded"}
              /\ clean_out.rows[i].status = "included"
                     <=> FailedChecks(clean_in[i]) = {}
              /\ Len(clean_out.rows[i].exclusion_reason)
                     = Cardinality(FailedChecks(clean_in[i]))

(***************************************************************************)
(* C23                                                                     *)
(***************************************************************************)
\* get_sheet_data has returned or raised
FetchIsOver == fetch_result.status # "none"

\* The attempts made so far and the outcome fit the retry policy
FetchFollowsPolicy ==
    /\ Len(fetch_log) <= 3
    /\ \A i \in 1..(Len(fetch_log) - 1) : ~fetch_log[i].ok
    /\ fetch_result.status = "none" =>
          \A i \in 1..Len(fetch_log) : ~fetch_log[i].ok
    /\ fetch_result.status = "returned" =>
          /\ fetch_log # <<>>
          /\ fetch_log[Len(fetch_log)].ok
          /\ fetch_result.value = fetch_log[Len(fetch_log)].value
    /\ fetch_result.status = "raised" =>
          /\ Len(fetch_log) = 3
          /\ ~fetch_log[3].ok
          /\ fetch_result.error = fetch_log[3].error

\* C23: get_sheet_data makes at most 3 attempts; every attempt but the last
\* one made has failed; it returns the values of the first successful
\* attempt and attempts nothing after it; when 3 attempts have failed it
\* raises the failure of the third instead of returning; and it always
\* returns or raises in the end.
C23_RetryIsBounded ==
    /\ []FetchFollowsPolicy
    /\ [][FetchIsOver => UNCHANGED fetching]_vars
    /\ <>FetchIsOver

\* Two attempts failed and the third returned a sheet's rows
C23_Witness ==
    /\ fetch_result.status = "returned"
    /\ fetch_result.value # <<>>
    /\ Len(fetch_log) = 3

(***************************************************************************)
(* C22                                                                     *)
(***************************************************************************)
RECURSIVE Flatten(_)
\* The batches of a log one after the other
Flatten(log) == IF log = <<>> THEN <<>> ELSE Head(log) \o Flatten(Tail(log))

\* The row indices appended so far are 1, 2, ... in this order, each once
AppendedInOrder ==
    Flatten(ingest_log) = [i \in 1..Len(Flatten(ingest_log)) |-> i]

\* C22: for every sheet with n >= 1 data rows and every batch_size >= 1 a
\* run of process_and_clean_sheet_data (whose inserts the database accepts)
\* appends the data rows 1..n, each exactly once and never the header, the
\* stored records carry their sheet index as original_row_number, pairwise
\* distinct, and the run returns totals with total_included +
\* total_excluded = total_rows = n.
C22_IngestionLosesNoRow ==
    /\ AppendedInOrder
    /\ (/\ ingest_pc = "done"
        /\ Len(raw_data) >= 1
        /\ ingest_result.error # "DatabaseError") =>
          /\ ingest_result.status = "returned"
          /\ Len(Flatten(ingest_log)) = Len(raw_data)
          /\ original["jan"].rows = ProcessedTable("jan", raw_data)
          /\ {r.original_row_number : r \in original["jan"].rows}
                 = 1..Len(raw_data)
          /\ Cardinality(original["jan"].rows) = Len(raw_data)
          /\ ingest_result.value[1] = Len(raw_data)
          /\ ingest_result.value[2] + ingest_result.value[3]
                 = Len(raw_data)
          /\ ingest_result.value[2] =
                 Cardinality({r \in original["jan"].rows :
                                 r.status = "included"})

(***************************************************************************)
(* C26                                                                     *)
(***************************************************************************)
\* C26: when process_and_clean_sheet_data fails while inserting a batch,
\* the period's record table holds its complete previous contents or the
\* complete new sheet, never only some of the new sheet's rows and never
\* nothing in place of the previous rows.
C26_IngestionAllOrNothing ==
    ingest_result.error = "DatabaseError" =>
        original["jan"] \in {NoTable,
                             Table(ProcessedTable("jan", PreviousSheet)),
                             Table(ProcessedTable("jan", raw_data))}

(***************************************************************************)
(* C24                                                                     *)
(***************************************************************************)
\* The comparison tables hold what a comparison stores when each period's
\* top-80% names are those of the records the period's table holds now
ComparisonOfOneSnapshot ==
    LET jo == original["jan"].rows
        ao == original["apr"].rows
        jc == CommonNamesRows(jo)
        ac == CommonNamesRows(ao)
    IN  /\ comparison_common_names =
               Table(ComparisonCommonRows(jo, ao, jc, ac))
        /\ comparison_unique_jan = Table(ComparisonUniqueRows(jo, ao, jc))
        /\ comparison_unique_apr = Table(ComparisonUniqueRows(ao, jo, ac))
        /\ comparison_summary = Table({ComparisonSummaryRow(jo, ao, jc, ac)})

\* C24: after any sequence of process, create_analytics and
\* create_comparison requests, a comparison that stores its tables stores,
\* for each period, top-80 flags and ranks of the coverage set of the very
\* records it took the period's names and frequencies from.
C24_ComparisonOfOneSnapshot ==
    [][ComparisonOutputs' # ComparisonOutputs => ComparisonOfOneSnapshot']_vars

(***************************************************************************)
(* C25                                                                     *)
(***************************************************************************)
\* Both requests have been answered
RunsOver == \A r \in Runs : run_response[r] # "none"

\* January's ten tables are the outputs of one create_analytics run over
\* its records
OutputsOfOneRun ==
    LET t == original["jan"].rows
    IN  /\ analytics["jan"].exists
        /\ \E l \in TopNamesLists(
                  {e \in cumulative_names(name_frequencies(t)) :
                      WithinTop80(e)}) :
              analytics["jan"].rows = {AnalyticsRow(t, l)}
        /\ \A pair \in Pairs :
              duplicates["jan"][pair] = Table(DuplicateGroupRows(t, pair))
        /\ \A c \in Charts : charts["jan"][c] = Table(ChartRows(t, c))
        /\ common_names["jan"] = Table(CommonNamesRows(t))

\* C25: two create_analytics requests for the same period served at the
\* same time both end without error, and the tables they leave are the
\* complete outputs of a single run.
C25_ConcurrentRunsBothSucceed ==
    /\ \A r \in Runs : run_response[r] # "error"
    /\ RunsOver => OutputsOfOneRun

====
